---- MODULE Spec2Model ----
(***************************************************************************)
(* State-machine model of the GLAM data pipeline (glam_data_processing).   *)
(*                                                                         *)
(* The catalog (table product_status, the terracotta `datasets` table and  *)
(* the per-key stats tables), the S3 object store and one update cycle     *)
(* (command_line.updateData or updateGlamData) are modelled.  Every        *)
(* database transaction / external call of the source is one action, so    *)
(* the catalog states that another reader can observe between two          *)
(* transactions are states of the model.                                   *)
(*                                                                         *)
(* The package carries two implementations of the Image / ToDoList         *)
(* classes: glam_data_processing/__init__.py ("init") and                  *)
(* glam_data_processing/legacy.py ("legacy").  The variable impl selects   *)
(* the one in use; it never changes.                                       *)
(***************************************************************************)
EXTENDS Integers, Sequences, FiniteSets, TLC

(***************************************************************************)
(* Bounds.                                                                 *)
(***************************************************************************)
\* cap on the depth of the uploadStats recursion (stands for the interpreter's
\* recursion limit, at which RecursionError ends the recursion)
MaxDepth == 4
\* number of update cycles that are started
MaxCycles == 1

\* the acquisitions: two dates of one product in one year, in date order
Acqs == {1, 2}

\* region identifiers found in a region raster
RegionIds == {1, 2}

\* SQL NULL in an integer column
Null == -1

Impls == {"init", "legacy"}
Kinds == {"ancillary", "ndvi"}

(***************************************************************************)
(* Regions, masks and the matchup policy (abridged lists).                 *)
(***************************************************************************)
admins_gaul == {"gaul1"}
admins_brazil == {"BR_State"}
admins == <<"gaul1", "BR_State">>
crops == <<"nomask">>
crops_brazil == {"2S-DFZSafraZ2013_2014"}

admin_crops_matchup ==
    [a \in {"gaul1", "BR_State"} |-> {"nomask"}]

\* a stats table key: <<crop, admin>> (product and year are those of Acqs)
Keys == {<<crops[i], admins[j]>> : i \in 1..Len(crops), j \in 1..Len(admins)}

\* crop-major, admin-minor order of the two nested loops of uploadStats
KeyOrder ==
    [n \in 1..(Len(crops) * Len(admins)) |->
        <<crops[((n - 1) \div Len(admins)) + 1], admins[((n - 1) % Len(admins)) + 1]>>]

Permitted == {k \in Keys : k[1] \in admin_crops_matchup[k[2]]}

VARIABLES
    impl,       \* "init" or "legacy": which implementation of Image/ToDoList runs
    kind,       \* "ancillary" (class Image) or "ndvi" (class ModisImage)
    status,     \* product_status: status[a] is the row of acquisition a
    datasets,   \* acquisitions with a record in the terracotta datasets table
    s3,         \* acquisitions whose raster object is in the S3 bucket
    tbl,        \* physical stats tables, one per key
    pc,         \* position of the update cycle
    args,       \* command-line arguments of the running cycle
    todo,       \* acquisitions still to be handled by the running cycle
    cur,        \* acquisition being handled (0 = none)
    ingestRet,  \* return value of the last Image.ingest() call
    us,         \* activation of Image.uploadStats
    cycles,     \* number of update cycles started so far
    lastOp,     \* history: the operation completed by the last step
    lut,        \* rows of the look-up table `stats`: records [id, key]
    nextId,     \* AUTO_INCREMENT counter of stats.stats_id
    gs,         \* gs[c]: activation of getStatID of caller c
    db,         \* properties of the database schema that the code does not fix
    run,        \* run[r]: uploadStats of process r at one (crop, admin) pair
    plan,       \* activation of a getChrono* loop (ToDoList.refresh, listAvailable)
    probe,      \* the last chirps URL built by the probe or the fetch
    pg,         \* the definitive and the preliminary precipitation product, and purge
    fl,         \* filterUnavailable and the loop over the filtered to-do list
    mr,     \* a probe or a fetch of the temperature product and the upstream listing
    rc,     \* MissingStatistics: the scan of an acquisition and rectify
    up,     \* Image.uploadStats over the full crop and admin lists: the pairs it visited
    zs,     \* zonal statistics of one raster: window outputs, the running reduction, results
    dl,     \* one download of pullFromSource: sizes, files in the output directory, result
    fn,     \* one acquisition, its canonical file name and what the parsers read from it
    mc,     \* updateData over the three merra-2 files of one date
    dc      \* product_status of one product as a count of rows per date, and two refresh runs

vars == <<impl, kind, status, datasets, s3, tbl, pc, args, todo, cur, ingestRet, us, cycles, lastOp,
          lut, nextId, gs, db, run, plan, probe, pg, fl, mr, rc, up, zs, dl, fn, mc, dc>>

\* the state of a request for the five days of the temperature product
merraVars == <<mr>>

\* the state of the rectifier
rectVars == <<rc>>

\* the state of one uploadStats call over the pair policy
pairVars == <<up>>

\* the state of the zonal statistics
zonalVars == <<zs>>

\* the state of one download
downloadVars == <<dl>>

\* the state of the file names
nameVars == <<fn>>

\* the state of the merra-2 collections of one date
collectionVars == <<mc>>

\* the state of the discovery runs
discoveryVars == <<dc>>

\* the state of the precipitation pair and of purge
purgeVars == <<pg>>

\* the state of a filtered update cycle
filterVars == <<fl>>

\* the state of the planner of expected dates and of the chirps URL builder
planVars == <<plan, probe>>

\* the state of the processes that write one stats table at the same time
raceVars == <<run>>

\* the state of the stats look-up and of its callers
lutVars == <<lut, nextId, gs, db>>

\* the state of the catalog, the object store and the update cycle
cycleVars == <<status, datasets, s3, tbl, pc, args, todo, cur, ingestRet, us, cycles, lastOp>>

(***************************************************************************)
(* product_status rows.  The column `downloaded` is written but never read *)
(* by the pipeline; it is not part of the modelled row.                    *)
(***************************************************************************)
NoRow == [exists |-> FALSE, processed |-> 0, statGen |-> Null, completed |-> 0]

Row(p, s, c) == [exists |-> TRUE, processed |-> p, statGen |-> s, completed |-> c]

\* "UPDATE product_status SET completed = 1 WHERE processed = 1 AND statGen = 1"
DeriveCompleted1(st) ==
    [a \in Acqs |->
        IF st[a].exists /\ st[a].processed = 1 /\ st[a].statGen = 1
        THEN [st[a] EXCEPT !.completed = 1] ELSE st[a]]

\* "UPDATE product_status SET completed = 0 WHERE processed = 0 OR statGen = 0"
DeriveCompleted0(st) ==
    [a \in Acqs |->
        IF st[a].exists /\ (st[a].processed = 0 \/ st[a].statGen = 0)
        THEN [st[a] EXCEPT !.completed = 0] ELSE st[a]]

\* "UPDATE product_status SET {stage} = {status} WHERE product = .. AND date = .."
SetFlag(st, a, stage, v) ==
    IF st[a].exists /\ stage # "downloaded" THEN [st EXCEPT ![a][stage] = v] ELSE st

\* Image.setStatus: legacy re-derives completed in the same transaction
setStatusRow(im, st, a, stage, v) ==
    IF im = "legacy"
    THEN DeriveCompleted0(DeriveCompleted1(SetFlag(st, a, stage, v)))
    ELSE SetFlag(st, a, stage, v)

\* the re-derivation at the head of ToDoList.refresh
refreshDerive(im, st) ==
    IF im = "legacy" THEN DeriveCompleted0(DeriveCompleted1(st))
    ELSE DeriveCompleted1(st)

\* getLatestDate: MAX(date) of the product's rows, 0 when there is none
getLatestDate(st) ==
    IF \E a \in Acqs : st[a].exists
    THEN CHOOSE a \in Acqs : st[a].exists /\ \A b \in Acqs : st[b].exists => b <= a
    ELSE 0

\* getChrono*: every date after the latest row gets a pending row (updateDatabase)
getChrono(st) == {a \in Acqs : a > getLatestDate(st)}

updateDatabase(st, new) ==
    [a \in Acqs |-> IF a \in new THEN Row(0, Null, 0) ELSE st[a]]

\* getDbMissing: dates of the rows with completed = 0
getDbMissing(st) == {a \in Acqs : st[a].exists /\ st[a].completed = 0}

\* ascending sequence of a set of acquisitions
RECURSIVE SeqOf(_)
SeqOf(S) ==
    IF S = {} THEN <<>>
    ELSE LET m == CHOOSE x \in S : \A y \in S : x <= y
         IN <<m>> \o SeqOf(S \ {m})

(***************************************************************************)
(* Stats tables.                                                           *)
(***************************************************************************)
NoTable == [exists |-> FALSE, cols |-> {}, rows |-> {}, vals |-> {}]

NoArgs == [driver |-> "none", stats |-> FALSE, ingest |-> FALSE, admin_level |-> "ALL", dir |-> FALSE]

\* skipped: a pair was skipped after a RuntimeError of zonal_stats (history)
NoUs == [got |-> FALSE, exist |-> {}, left |-> <<>>, depth |-> 0, skipped |-> FALSE]

Op(name, a) == [op |-> name, acq |-> a]

\* processes that resolve stats tables at the same time
Callers == {"c1", "c2"}

\* no getChrono* loop is running; dates are day numbers (see Calendar)
NoPlan == [pc |-> "idle", product |-> "none", start |-> 0, today |-> 0, latest |-> 0,
           prev |-> 0, out |-> {}]

NoProbe == [by |-> "none", product |-> "none", date |-> 0, cDay |-> 0]

\* the two dates of the precipitation pair
PDates == {1, 2}

\* a product at a date: product_status row (none, pending, processed or
\* completed), raster object with its datasets record, and the stats tables
\* (by key) that hold its val/pct columns
NoItem == [row |-> "none", obj |-> FALSE, cols |-> {}]

NoState == [fin |-> [d \in PDates |-> NoItem], pre |-> [d \in PDates |-> NoItem]]

\* no update of the precipitation pair is running and purge was never called
NoPg == [pc |-> "idle", cur |-> 0, todo |-> <<>>, st |-> NoState,
         inv |-> [d \in PDates |-> "none"],
         last |-> 0, key |-> "none", before |-> NoState, after |-> NoState, ret |-> "none"]

\* no request for the temperature product
NoMr == [by |-> "none", listing |-> <<>>, ret |-> "none"]

\* no MissingStatistics object
NoRc == [pc |-> "idle", acq |-> 0, data |-> <<>>, left |-> <<>>, ret |-> "none", again |-> <<>>]

\* uploadStats is not running over the pair policy
NoUp == [pc |-> "idle", im |-> "none", crop_level |-> "ALL", admin_level |-> "ALL",
         crop_specified |-> "none", admin_specified |-> "none", override_brazil_limit |-> FALSE,
         left |-> <<>>, ran |-> {}, created |-> {}, wrote |-> {}]

\* no zonal statistics under way
NoZs == [raster |-> <<>>, mask |-> "nomask", admin_path |-> "gaul1", blocksize |-> 1,
         outs |-> <<>>, final |-> <<>>, folded |-> 0,
         ret |-> [is |-> "none", dict |-> <<>>], frame |-> [is |-> "none", rows |-> {}]]

\* no download under way
NoDl == [pc |-> "idle", module |-> "none", product |-> "none", observed |-> 0, expected |-> 0,
         files |-> {}, ret |-> "none"]

\* no file name built
NoFn == [acq |-> [product |-> "none", date |-> <<>>, collection |-> "0"], name |-> <<>>,
         image |-> [is |-> "none"], meta |-> [is |-> "none"]]

\* updateData is not at a merra-2 date
NoMc == [pc |-> "idle", paths |-> <<>>, published |-> {}, stats |-> {}, failed |-> "none",
         planned |-> {}]

\* no refresh under way
NoDc == [rows |-> <<>>, unique |-> FALSE, today |-> 0,
         runs |-> [r \in {"r1", "r2"} |-> [pc |-> "idle", latest |-> 0, crashes |-> 0]]]

\* filterUnavailable is not running
NoFl == [pc |-> "idle", cands |-> <<>>, i |-> 0, probes |-> <<>>, kept |-> {}, tried |-> {},
         logged |-> {}]

\* processes that run uploadStats on the same stats table at the same time
Runners == {"r1", "r2"}

\* seen: statsTable.exists as getStatsTables reported it; alt: the run issued
\* ALTER TABLE .. ADD (history)
NoRun == [pc |-> "idle", acq |-> 0, seen |-> FALSE, alt |-> FALSE]

\* miss: the first SELECT of the call found no row (history)
NoCall == [pc |-> "idle", key |-> <<>>, depth |-> 0, ret |-> 0, miss |-> FALSE]

Init ==
    /\ impl \in Impls
    /\ kind \in Kinds
    /\ (kind = "ndvi" => impl = "legacy")
    /\ status = [a \in Acqs |-> NoRow]
    /\ datasets = {}
    /\ s3 = {}
    /\ tbl = [k \in Keys |-> NoTable]
    /\ pc = "idle"
    /\ args = NoArgs
    /\ todo = <<>>
    /\ cur = 0
    /\ ingestRet = FALSE
    /\ us = NoUs
    /\ cycles = 0
    /\ lastOp = Op("init", 0)
    /\ lut = {}
    /\ nextId = 1
    /\ gs = [c \in Callers |-> NoCall]
    /\ db = [unique |-> FALSE, transactional |-> TRUE]
    /\ run = [r \in Runners |-> NoRun]
    /\ dc = NoDc
    /\ mc = NoMc
    /\ fn = NoFn
    /\ dl = NoDl
    /\ zs = NoZs
    /\ up = NoUp
    /\ rc = NoRc
    /\ mr = NoMr
    /\ plan = NoPlan
    /\ probe = NoProbe
    /\ pg = NoPg
    /\ fl = NoFl


(***************************************************************************)
(* The update cycle: command_line.updateData and updateGlamData.           *)
(***************************************************************************)
ArgSets ==
    {[driver |-> "updateData", stats |-> st, ingest |-> ig, admin_level |-> lv, dir |-> d] :
        st \in BOOLEAN, ig \in BOOLEAN, lv \in {"ALL", "GAUL"}, d \in BOOLEAN}

\* "--ingest and --stats are mutually exclusive"; updateGlamData takes no argument
ValidArgs ==
    {x \in ArgSets : ~(x.stats /\ x.ingest)}
    \cup {[driver |-> "updateGlamData", stats |-> FALSE, ingest |-> FALSE,
           admin_level |-> "ALL", dir |-> FALSE]}

\* ToDoList.refresh: re-derive completed, list the incomplete rows, add the
\* pending rows of the dates that became due
refresh(im, st) == updateDatabase(refreshDerive(im, st), getChrono(st))

refreshMissing(im, st) == getDbMissing(refreshDerive(im, st)) \cup getChrono(st)

\* a cycle starts: ToDoList() and filterUnavailable(), or the listing of
\* --input_directory
StartCycle ==
    /\ pc = "idle"
    /\ cycles < MaxCycles
    /\ cycles' = cycles + 1
    /\ \E x \in ValidArgs :
        /\ args' = x
        /\ IF x.dir
           THEN /\ \E files \in (SUBSET Acqs) \ {{}} : todo' = SeqOf(files)
                /\ status' = status
           ELSE /\ \E avail \in SUBSET refreshMissing(impl, status) : todo' = SeqOf(avail)
                /\ status' = refresh(impl, status)
    /\ pc' = "pick"
    /\ lastOp' = Op("StartCycle", 0)
    /\ UNCHANGED <<impl, kind, datasets, s3, tbl, cur, ingestRet, us>>
    /\ UNCHANGED lutVars
    /\ UNCHANGED raceVars
    /\ UNCHANGED planVars
    /\ UNCHANGED purgeVars
    /\ UNCHANGED filterVars
    /\ UNCHANGED merraVars
    /\ UNCHANGED rectVars
    /\ UNCHANGED pairVars
    /\ UNCHANGED zonalVars
    /\ UNCHANGED downloadVars
    /\ UNCHANGED nameVars
    /\ UNCHANGED collectionVars
    /\ UNCHANGED discoveryVars

\* the loop over the to-do list is exhausted
EndCycle ==
    /\ pc = "pick"
    /\ todo = <<>>
    /\ pc' = "idle"
    /\ args' = NoArgs
    /\ cur' = 0
    /\ lastOp' = Op("EndCycle", 0)
    /\ UNCHANGED <<impl, kind, status, datasets, s3, tbl, todo, ingestRet, us, cycles>>
    /\ UNCHANGED lutVars
    /\ UNCHANGED raceVars
    /\ UNCHANGED planVars
    /\ UNCHANGED purgeVars
    /\ UNCHANGED filterVars
    /\ UNCHANGED merraVars
    /\ UNCHANGED rectVars
    /\ UNCHANGED pairVars
    /\ UNCHANGED zonalVars
    /\ UNCHANGED downloadVars
    /\ UNCHANGED nameVars
    /\ UNCHANGED collectionVars
    /\ UNCHANGED discoveryVars

\* the next acquisition is taken and its file obtained (pullFromSource, or the
\* path on disk)
Pull ==
    /\ pc = "pick"
    /\ todo # <<>>
    /\ cur' = Head(todo)
    /\ todo' = Tail(todo)
    /\ pc' = "setDownloaded"
    /\ ingestRet' = FALSE
    /\ us' = NoUs
    /\ lastOp' = Op("Pull", Head(todo))
    /\ UNCHANGED <<impl, kind, status, datasets, s3, tbl, args, cycles>>
    /\ UNCHANGED lutVars
    /\ UNCHANGED raceVars
    /\ UNCHANGED planVars
    /\ UNCHANGED purgeVars
    /\ UNCHANGED filterVars
    /\ UNCHANGED merraVars
    /\ UNCHANGED rectVars
    /\ UNCHANGED pairVars
    /\ UNCHANGED zonalVars
    /\ UNCHANGED downloadVars
    /\ UNCHANGED nameVars
    /\ UNCHANGED collectionVars
    /\ UNCHANGED discoveryVars

\* pullFromSource raises or returns no path: the acquisition is skipped
PullFail ==
    /\ pc = "pick"
    /\ todo # <<>>
    /\ ~args.dir
    /\ cur' = Head(todo)
    /\ todo' = Tail(todo)
    /\ lastOp' = Op("PullFail", Head(todo))
    /\ UNCHANGED <<impl, kind, status, datasets, s3, tbl, pc, args, ingestRet, us, cycles>>
    /\ UNCHANGED lutVars
    /\ UNCHANGED raceVars
    /\ UNCHANGED planVars
    /\ UNCHANGED purgeVars
    /\ UNCHANGED filterVars
    /\ UNCHANGED merraVars
    /\ UNCHANGED rectVars
    /\ UNCHANGED pairVars
    /\ UNCHANGED zonalVars
    /\ UNCHANGED downloadVars
    /\ UNCHANGED nameVars
    /\ UNCHANGED collectionVars
    /\ UNCHANGED discoveryVars

\* image.setStatus('downloaded',True)
SetDownloaded ==
    /\ pc = "setDownloaded"
    /\ status' = setStatusRow(impl, status, cur, "downloaded", 1)
    /\ pc' = IF args.stats THEN "uploadStats" ELSE "ingest_insert"
    /\ lastOp' = [op |-> "setStatus", acq |-> cur, stage |-> "downloaded"]
    /\ UNCHANGED <<impl, kind, datasets, s3, tbl, args, todo, cur, ingestRet, us, cycles>>
    /\ UNCHANGED lutVars
    /\ UNCHANGED raceVars
    /\ UNCHANGED planVars
    /\ UNCHANGED purgeVars
    /\ UNCHANGED filterVars
    /\ UNCHANGED merraVars
    /\ UNCHANGED rectVars
    /\ UNCHANGED pairVars
    /\ UNCHANGED zonalVars
    /\ UNCHANGED downloadVars
    /\ UNCHANGED nameVars
    /\ UNCHANGED collectionVars
    /\ UNCHANGED discoveryVars

(***************************************************************************)
(* Image.ingest: driver.insert, upload_file_s3, UPDATE/INSERT processed.   *)
(***************************************************************************)
IngestInsert ==
    /\ pc = "ingest_insert"
    /\ \E ok \in BOOLEAN :
        IF ok
        THEN /\ datasets' = datasets \cup {cur}
             /\ pc' = "ingest_upload"
             /\ lastOp' = Op("driver.insert", cur)
             /\ UNCHANGED ingestRet
        ELSE /\ ingestRet' = FALSE
             /\ pc' = "after_ingest"
             /\ lastOp' = Op("ingest", cur)
             /\ UNCHANGED datasets
    /\ UNCHANGED <<impl, kind, status, s3, tbl, args, todo, cur, us, cycles>>
    /\ UNCHANGED lutVars
    /\ UNCHANGED raceVars
    /\ UNCHANGED planVars
    /\ UNCHANGED purgeVars
    /\ UNCHANGED filterVars
    /\ UNCHANGED merraVars
    /\ UNCHANGED rectVars
    /\ UNCHANGED pairVars
    /\ UNCHANGED zonalVars
    /\ UNCHANGED downloadVars
    /\ UNCHANGED nameVars
    /\ UNCHANGED collectionVars
    /\ UNCHANGED discoveryVars

IngestUpload ==
    /\ pc = "ingest_upload"
    /\ \E out \in {"ok", "ClientError", "raise"} :
        CASE out = "ok" ->
                /\ s3' = s3 \cup {cur}
                /\ pc' = "ingest_mark"
                /\ lastOp' = Op("upload_file_s3", cur)
                /\ UNCHANGED ingestRet
          [] out = "ClientError" ->
                /\ ingestRet' = FALSE
                /\ pc' = "after_ingest"
                /\ lastOp' = Op("ingest", cur)
                /\ UNCHANGED s3
          [] out = "raise" ->
                /\ pc' = "pick"
                /\ lastOp' = Op("FAILED", cur)
                /\ UNCHANGED <<s3, ingestRet>>
    /\ UNCHANGED <<impl, kind, status, datasets, tbl, args, todo, cur, us, cycles>>
    /\ UNCHANGED lutVars
    /\ UNCHANGED raceVars
    /\ UNCHANGED planVars
    /\ UNCHANGED purgeVars
    /\ UNCHANGED filterVars
    /\ UNCHANGED merraVars
    /\ UNCHANGED rectVars
    /\ UNCHANGED pairVars
    /\ UNCHANGED zonalVars
    /\ UNCHANGED downloadVars
    /\ UNCHANGED nameVars
    /\ UNCHANGED collectionVars
    /\ UNCHANGED discoveryVars

\* "UPDATE product_status SET processed = True ..", INSERT when no row matched
ingestMark(st, a) ==
    IF st[a].exists THEN [st EXCEPT ![a].processed = 1]
    ELSE [st EXCEPT ![a] = Row(1, 0, 0)]

IngestMark ==
    /\ pc = "ingest_mark"
    /\ \E ok \in BOOLEAN :
        IF ok
        THEN /\ status' = ingestMark(status, cur)
             /\ ingestRet' = TRUE
        ELSE /\ ingestRet' = FALSE
             /\ UNCHANGED status
    /\ pc' = "after_ingest"
    /\ lastOp' = Op("ingest", cur)
    /\ UNCHANGED <<impl, kind, datasets, s3, tbl, args, todo, cur, us, cycles>>
    /\ UNCHANGED lutVars
    /\ UNCHANGED raceVars
    /\ UNCHANGED planVars
    /\ UNCHANGED purgeVars
    /\ UNCHANGED filterVars
    /\ UNCHANGED merraVars
    /\ UNCHANGED rectVars
    /\ UNCHANGED pairVars
    /\ UNCHANGED zonalVars
    /\ UNCHANGED downloadVars
    /\ UNCHANGED nameVars
    /\ UNCHANGED collectionVars
    /\ UNCHANGED discoveryVars

\* updateData: "image.ingest(); image.setStatus('processed',True)"
\* updateGlamData: "ingest = image.ingest(); if ingest: image.setStatus(..)"
processedIsSet(driver, ret) == driver = "updateData" \/ ret

AfterIngest ==
    /\ pc = "after_ingest"
    /\ IF processedIsSet(args.driver, ingestRet)
       THEN /\ status' = setStatusRow(impl, status, cur, "processed", 1)
            /\ lastOp' = [op |-> "setStatus", acq |-> cur, stage |-> "processed"]
       ELSE /\ UNCHANGED status
            /\ lastOp' = [op |-> "skipStatus", acq |-> cur, stage |-> "processed"]
    /\ pc' = IF args.ingest THEN "pick" ELSE "uploadStats"
    /\ ingestRet' = FALSE
    /\ UNCHANGED <<impl, kind, datasets, s3, tbl, args, todo, cur, us, cycles>>
    /\ UNCHANGED lutVars
    /\ UNCHANGED raceVars
    /\ UNCHANGED planVars
    /\ UNCHANGED purgeVars
    /\ UNCHANGED filterVars
    /\ UNCHANGED merraVars
    /\ UNCHANGED rectVars
    /\ UNCHANGED pairVars
    /\ UNCHANGED zonalVars
    /\ UNCHANGED downloadVars
    /\ UNCHANGED nameVars
    /\ UNCHANGED collectionVars
    /\ UNCHANGED discoveryVars

(***************************************************************************)
(* Image.uploadStats / ModisImage.uploadStats.                             *)
(***************************************************************************)
\* keys of the dictionary returned by getStatsTables
InDict(im, k) == im = "legacy" => k[1] \in admin_crops_matchup[k[2]]

\* the "continue" guards of the two nested loops
loopGuard(im, level, k) ==
    /\ InDict(im, k)
    /\ (im = "legacy" => k[1] \in admin_crops_matchup[k[2]])
    /\ ~(level = "BRAZIL" /\ k[2] \notin admins_brazil)
    /\ ~(level = "GAUL" /\ k[2] \notin admins_gaul)
    /\ ~(k[1] \in crops_brazil /\ k[2] \notin admins_brazil)

LoopKeys(im, level) == SelectSeq(KeyOrder, LAMBDA k : loopGuard(im, level, k))

\* admin_level of the running activation: the recursive call
\* "self.uploadStats(stats_tables)" passes no level, so it runs with "ALL"
FrameLevel == IF us.depth = 0 THEN args.admin_level ELSE "ALL"

\* "except db.exc.OperationalError: if retries <= 3: self.uploadStats(stats_tables)"
\* retries is a local that is set to 0 and never incremented
retryAllowed(depth) == 0 <= 3

\* the handler of OperationalError: recurse, or give up
Retry(u) ==
    IF retryAllowed(u.depth)
    THEN IF u.depth + 1 > MaxDepth
         THEN /\ pc' = "pick"
              /\ us' = NoUs
              /\ lastOp' = Op("FAILED", cur)
         ELSE /\ pc' = "uploadStats"
              /\ us' = [u EXCEPT !.depth = u.depth + 1, !.left = <<>>]
              /\ lastOp' = Op("retry", cur)
    ELSE /\ pc' = "after_stats"
         /\ us' = NoUs
         /\ lastOp' = Op("uploadStatsGaveUp", cur)

\* entry of an activation: getStatsTables() when no dictionary was passed
UsEnter ==
    /\ pc = "uploadStats"
    /\ \/ /\ us' = [us EXCEPT !.got = TRUE,
                              !.exist = IF us.got THEN us.exist
                                        ELSE {k \in Keys : InDict(impl, k) /\ tbl[k].exists},
                              !.left = LoopKeys(impl, FrameLevel)]
          /\ pc' = "us_pair"
          /\ lastOp' = Op("getStatsTables", cur)
       \/ /\ ~us.got
          /\ Retry(us)
    /\ UNCHANGED <<impl, kind, status, datasets, s3, tbl, args, todo, cur, ingestRet, cycles>>
    /\ UNCHANGED lutVars
    /\ UNCHANGED raceVars
    /\ UNCHANGED planVars
    /\ UNCHANGED purgeVars
    /\ UNCHANGED filterVars
    /\ UNCHANGED merraVars
    /\ UNCHANGED rectVars
    /\ UNCHANGED pairVars
    /\ UNCHANGED zonalVars
    /\ UNCHANGED downloadVars
    /\ UNCHANGED nameVars
    /\ UNCHANGED collectionVars
    /\ UNCHANGED discoveryVars

\* "ALTER TABLE .. ADD `val.doy`" when the column is missing
addColumn(t, a) == [t EXCEPT !.cols = t.cols \cup {a}]

\* the UPDATE .. WHERE admin = r of every row of the data frame; ModisImage
\* inserts the row when the update matched none
updateRows(kd, t, a, res) ==
    IF kd = "ndvi"
    THEN [t EXCEPT !.rows = t.rows \cup res, !.vals = t.vals \cup (res \X {a})]
    ELSE [t EXCEPT !.vals = t.vals \cup ((res \cap t.rows) \X {a})]

append_to_stats_table(kd, t, a, res) == updateRows(kd, addColumn(t, a), a, res)

\* CREATE TABLE with the columns admin, arable, val.doy, pct.doy
createTable(a) == [exists |-> TRUE, cols |-> {a}, rows |-> {}, vals |-> {}]

\* df_subset.to_sql(.., if_exists='append')
insertFrame(t, a, res) == [t EXCEPT !.rows = t.rows \cup res, !.vals = t.vals \cup (res \X {a})]

\* the data frame of zonal_stats: one record per region id with arable pixels
zonalRegions(k) == RegionIds

\* one (crop, admin) pair of the loop: zonal_stats, then create or append
UsPair ==
    /\ pc = "us_pair"
    /\ us.left # <<>>
    /\ LET k == Head(us.left)
           next == [us EXCEPT !.left = Tail(us.left)]
           skip == [us EXCEPT !.left = Tail(us.left), !.skipped = TRUE]
           res == zonalRegions(k)
           doAppend(out) ==
               CASE out = "ok" ->
                        /\ tbl' = [tbl EXCEPT ![k] = append_to_stats_table(kind, tbl[k], cur, res)]
                        /\ us' = next
                        /\ pc' = "us_pair"
                        /\ lastOp' = [op |-> "append", acq |-> cur, key |-> k, res |-> res]
                 [] out = "lost" ->
                        /\ UNCHANGED tbl
                        /\ Retry(us)
       IN \E out \in {"ok", "lost", "RuntimeError"} :
            IF out = "RuntimeError"
            THEN \* missing crop mask or admin zone raster
                 /\ UNCHANGED tbl
                 /\ IF kind = "ancillary"
                    THEN /\ us' = skip
                         /\ pc' = "us_pair"
                         /\ lastOp' = [op |-> "skipPair", acq |-> cur, key |-> k, res |-> {}]
                    ELSE /\ us' = NoUs
                         /\ pc' = "pick"
                         /\ lastOp' = Op("FAILED", cur)
            ELSE IF k \in us.exist
            THEN doAppend(out)
            ELSE IF ~tbl[k].exists
            THEN \* create_stats_table: CREATE TABLE is committed on its own
                 /\ out = "ok"
                 /\ tbl' = [tbl EXCEPT ![k] = createTable(cur)]
                 /\ us' = us
                 /\ pc' = "us_rows"
                 /\ lastOp' = Op("CREATE TABLE", cur)
            ELSE IF impl = "legacy"
            THEN \* "except db.exc.InternalError: append_to_stats_table(..)"
                 doAppend(out)
            ELSE \* the "table already exists" error leaves uploadStats
                 /\ out = "ok"
                 /\ UNCHANGED tbl
                 /\ us' = NoUs
                 /\ pc' = "pick"
                 /\ lastOp' = Op("FAILED", cur)
    /\ UNCHANGED <<impl, kind, status, datasets, s3, args, todo, cur, ingestRet, cycles>>
    /\ UNCHANGED lutVars
    /\ UNCHANGED raceVars
    /\ UNCHANGED planVars
    /\ UNCHANGED purgeVars
    /\ UNCHANGED filterVars
    /\ UNCHANGED merraVars
    /\ UNCHANGED rectVars
    /\ UNCHANGED pairVars
    /\ UNCHANGED zonalVars
    /\ UNCHANGED downloadVars
    /\ UNCHANGED nameVars
    /\ UNCHANGED collectionVars
    /\ UNCHANGED discoveryVars

\* second half of create_stats_table: the rows of the data frame
UsRows ==
    /\ pc = "us_rows"
    /\ LET k == Head(us.left)
           res == zonalRegions(k)
       IN \/ /\ tbl' = [tbl EXCEPT ![k] = insertFrame(tbl[k], cur, res)]
             /\ us' = [us EXCEPT !.left = Tail(us.left)]
             /\ pc' = "us_pair"
             /\ lastOp' = [op |-> "create", acq |-> cur, key |-> k, res |-> res]
          \/ /\ UNCHANGED tbl
             /\ Retry(us)
    /\ UNCHANGED <<impl, kind, status, datasets, s3, args, todo, cur, ingestRet, cycles>>
    /\ UNCHANGED lutVars
    /\ UNCHANGED raceVars
    /\ UNCHANGED planVars
    /\ UNCHANGED purgeVars
    /\ UNCHANGED filterVars
    /\ UNCHANGED merraVars
    /\ UNCHANGED rectVars
    /\ UNCHANGED pairVars
    /\ UNCHANGED zonalVars
    /\ UNCHANGED downloadVars
    /\ UNCHANGED nameVars
    /\ UNCHANGED collectionVars
    /\ UNCHANGED discoveryVars

\* "UPDATE product_status SET statGen = True ..", INSERT when no row matched
statGenMark(st, a) ==
    IF st[a].exists THEN [st EXCEPT ![a].statGen = 1]
    ELSE [st EXCEPT ![a] = Row(0, 1, 0)]

\* "if admin_level == 'ALL' and crop_level == 'ALL'", evaluated by every
\* activation on the stack when it is left
marksStatGen(level, depth) == level = "ALL" \/ depth > 0

\* the loops are done: update product_status, return through all activations
UsDone ==
    /\ pc = "us_pair"
    /\ us.left = <<>>
    /\ status' = IF marksStatGen(args.admin_level, us.depth)
                 THEN statGenMark(status, cur) ELSE status
    /\ pc' = "after_stats"
    /\ us' = NoUs
    /\ lastOp' = [op |-> "uploadStats", acq |-> cur, skipped |-> us.skipped]
    /\ UNCHANGED <<impl, kind, datasets, s3, tbl, args, todo, cur, ingestRet, cycles>>
    /\ UNCHANGED lutVars
    /\ UNCHANGED raceVars
    /\ UNCHANGED planVars
    /\ UNCHANGED purgeVars
    /\ UNCHANGED filterVars
    /\ UNCHANGED merraVars
    /\ UNCHANGED rectVars
    /\ UNCHANGED pairVars
    /\ UNCHANGED zonalVars
    /\ UNCHANGED downloadVars
    /\ UNCHANGED nameVars
    /\ UNCHANGED collectionVars
    /\ UNCHANGED discoveryVars

\* value returned by uploadStats: True (Image), None (ModisImage)
uploadStatsRet(kd) == kd = "ancillary"

\* updateData: "image.uploadStats(..); image.setStatus('statGen',True)"
\* updateGlamData: "stats = image.uploadStats(); if stats: image.setStatus(..)"
statGenIsSet(driver, ret) == driver = "updateData" \/ ret

AfterStats ==
    /\ pc = "after_stats"
    /\ IF statGenIsSet(args.driver, uploadStatsRet(kind))
       THEN /\ status' = setStatusRow(impl, status, cur, "statGen", 1)
            /\ lastOp' = [op |-> "setStatus", acq |-> cur, stage |-> "statGen"]
       ELSE /\ UNCHANGED status
            /\ lastOp' = [op |-> "skipStatus", acq |-> cur, stage |-> "statGen"]
    /\ pc' = "pick"
    /\ UNCHANGED <<impl, kind, datasets, s3, tbl, args, todo, cur, ingestRet, us, cycles>>
    /\ UNCHANGED lutVars
    /\ UNCHANGED raceVars
    /\ UNCHANGED planVars
    /\ UNCHANGED purgeVars
    /\ UNCHANGED filterVars
    /\ UNCHANGED merraVars
    /\ UNCHANGED rectVars
    /\ UNCHANGED pairVars
    /\ UNCHANGED zonalVars
    /\ UNCHANGED downloadVars
    /\ UNCHANGED nameVars
    /\ UNCHANGED collectionVars
    /\ UNCHANGED discoveryVars

(***************************************************************************)
(* Other callers of the catalog.                                           *)
(***************************************************************************)
\* Image.getStatus inserts the row when there is none (a caller between two
\* update cycles, e.g. isProcessed / statsGenerated)
getStatus ==
    /\ pc = "idle"
    /\ \E a \in Acqs :
        /\ ~status[a].exists
        /\ status' = [status EXCEPT ![a] = Row(0, Null, 0)]
        /\ lastOp' = Op("getStatus", a)
    /\ UNCHANGED <<impl, kind, datasets, s3, tbl, pc, args, todo, cur, ingestRet, us, cycles>>
    /\ UNCHANGED lutVars
    /\ UNCHANGED raceVars
    /\ UNCHANGED planVars
    /\ UNCHANGED purgeVars
    /\ UNCHANGED filterVars
    /\ UNCHANGED merraVars
    /\ UNCHANGED rectVars
    /\ UNCHANGED pairVars
    /\ UNCHANGED zonalVars
    /\ UNCHANGED downloadVars
    /\ UNCHANGED nameVars
    /\ UNCHANGED collectionVars
    /\ UNCHANGED discoveryVars

Next ==
    \/ StartCycle
    \/ EndCycle
    \/ Pull
    \/ PullFail
    \/ SetDownloaded
    \/ IngestInsert
    \/ IngestUpload
    \/ IngestMark
    \/ AfterIngest
    \/ UsEnter
    \/ UsPair
    \/ UsRows
    \/ UsDone
    \/ AfterStats
    \/ getStatus

Spec == Init /\ [][Next]_vars

(***************************************************************************)
(* Image.getStatsTables.getStatID: two processes resolve stats tables.     *)
(* Every transaction (legacy) or statement (__init__) is one action.       *)
(***************************************************************************)
\* cap on the depth of the getStatID recursion (stands for the interpreter's
\* recursion limit)
MaxStatDepth == 3

\* "SELECT stats_id .. WHERE product_id, mask_id, region_id, year match"
statQuery(l, k) == {r.id : r \in {x \in l : x.key = k}}

\* legacy inserts in "with self.engine.begin()", which commits; __init__
\* inserts through a Session that is closed without commit, so the row stays
\* only on a non-transactional storage engine
insertCommits(im, d) == im = "legacy" \/ ~d.transactional

\* the second parameter of the legacy getStatID: set by its recursive call
picky(im, depth) == im = "legacy" /\ depth > 0

InitLut ==
    /\ impl \in Impls
    /\ kind = "ancillary"
    /\ status = [a \in Acqs |-> NoRow]
    /\ datasets = {}
    /\ s3 = {}
    /\ tbl = [k \in Keys |-> NoTable]
    /\ pc = "idle"
    /\ args = NoArgs
    /\ todo = <<>>
    /\ cur = 0
    /\ ingestRet = FALSE
    /\ us = NoUs
    /\ cycles = 0
    /\ lastOp = Op("init", 0)
    /\ lut = {}
    /\ nextId = 1
    /\ gs = [c \in Callers |-> NoCall]
    /\ db \in [unique : BOOLEAN, transactional : BOOLEAN]
    /\ run = [r \in Runners |-> NoRun]
    /\ dc = NoDc
    /\ mc = NoMc
    /\ fn = NoFn
    /\ dl = NoDl
    /\ zs = NoZs
    /\ up = NoUp
    /\ rc = NoRc
    /\ mr = NoMr
    /\ plan = NoPlan
    /\ probe = NoProbe
    /\ pg = NoPg
    /\ fl = NoFl

\* getStatsTables calls getStatID for a (crop, admin) pair of its dictionary
GsCall(c) ==
    /\ gs[c].pc = "idle"
    /\ \E k \in {x \in Keys : InDict(impl, x)} :
        gs' = [gs EXCEPT ![c] = [NoCall EXCEPT !.pc = "select", !.key = k]]
    /\ UNCHANGED <<impl, kind, lut, nextId, db>>
    /\ UNCHANGED cycleVars
    /\ UNCHANGED raceVars
    /\ UNCHANGED planVars
    /\ UNCHANGED purgeVars
    /\ UNCHANGED filterVars
    /\ UNCHANGED merraVars
    /\ UNCHANGED rectVars
    /\ UNCHANGED pairVars
    /\ UNCHANGED zonalVars
    /\ UNCHANGED downloadVars
    /\ UNCHANGED nameVars
    /\ UNCHANGED collectionVars
    /\ UNCHANGED discoveryVars

\* the SELECT of stat_query and the use of stat_result[0][0]: the id of a
\* matching row (the query has no ORDER BY), IndexError when there is none
GsSelect(c) ==
    /\ gs[c].pc = "select"
    /\ LET found == statQuery(lut, gs[c].key)
       IN IF found = {}
          THEN gs' = [gs EXCEPT ![c].pc = IF picky(impl, gs[c].depth) THEN "raised" ELSE "insert",
                                ![c].miss = gs[c].miss \/ gs[c].depth = 0]
          ELSE \E id \in found : gs' = [gs EXCEPT ![c].pc = "done", ![c].ret = id]
    /\ UNCHANGED <<impl, kind, lut, nextId, db>>
    /\ UNCHANGED cycleVars
    /\ UNCHANGED raceVars
    /\ UNCHANGED planVars
    /\ UNCHANGED purgeVars
    /\ UNCHANGED filterVars
    /\ UNCHANGED merraVars
    /\ UNCHANGED rectVars
    /\ UNCHANGED pairVars
    /\ UNCHANGED zonalVars
    /\ UNCHANGED downloadVars
    /\ UNCHANGED nameVars
    /\ UNCHANGED collectionVars
    /\ UNCHANGED discoveryVars

\* "self.stats.insert().values(product_id=.., mask_id=.., region_id=.., year=..)"
\* followed by the recursive call
GsInsert(c) ==
    /\ gs[c].pc = "insert"
    /\ IF insertCommits(impl, db)
       THEN IF db.unique /\ statQuery(lut, gs[c].key) # {}
            THEN \* IntegrityError: not caught by getStatID
                 /\ gs' = [gs EXCEPT ![c].pc = "raised"]
                 /\ UNCHANGED <<lut, nextId>>
            ELSE /\ lut' = lut \cup {[id |-> nextId, key |-> gs[c].key]}
                 /\ nextId' = nextId + 1
                 /\ gs' = [gs EXCEPT ![c].pc = "select", ![c].depth = gs[c].depth + 1]
       ELSE \* the row is pending in a session that is rolled back when closed
            /\ UNCHANGED lut
            /\ nextId' = nextId + 1
            /\ gs' = [gs EXCEPT ![c].pc = IF gs[c].depth + 1 > MaxStatDepth
                                          THEN "raised" ELSE "select",
                                ![c].depth = gs[c].depth + 1]
    /\ UNCHANGED <<impl, kind, db>>
    /\ UNCHANGED cycleVars
    /\ UNCHANGED raceVars
    /\ UNCHANGED planVars
    /\ UNCHANGED purgeVars
    /\ UNCHANGED filterVars
    /\ UNCHANGED merraVars
    /\ UNCHANGED rectVars
    /\ UNCHANGED pairVars
    /\ UNCHANGED zonalVars
    /\ UNCHANGED downloadVars
    /\ UNCHANGED nameVars
    /\ UNCHANGED collectionVars
    /\ UNCHANGED discoveryVars

NextLut == \E c \in Callers : GsCall(c) \/ GsSelect(c) \/ GsInsert(c)

SpecLut == InitLut /\ [][NextLut]_vars

(***************************************************************************)
(* Two processes run uploadStats on the stats table of one key at the same *)
(* time (two update cycles, or an update cycle and the rectifier).  Every  *)
(* SQL statement that the code runs in a transaction of its own, and every *)
(* DDL statement (committed implicitly), is one action.                    *)
(***************************************************************************)
\* the update cycle is not running
IdleCycle ==
    /\ status = [a \in Acqs |-> NoRow]
    /\ datasets = {}
    /\ s3 = {}
    /\ pc = "idle"
    /\ args = NoArgs
    /\ todo = <<>>
    /\ cur = 0
    /\ ingestRet = FALSE
    /\ us = NoUs
    /\ cycles = 0
    /\ lastOp = Op("init", 0)

\* no stats table is being resolved
IdleLut ==
    /\ lut = {}
    /\ nextId = 1
    /\ gs = [c \in Callers |-> NoCall]
    /\ db = [unique |-> FALSE, transactional |-> TRUE]

\* the key whose table the processes write
TblKey == KeyOrder[1]

\* a table as a finished uploadStats of acquisition a left it
tableOf(a) == insertFrame(createTable(a), a, zonalRegions(TblKey))

InitTbl ==
    /\ impl \in Impls
    /\ kind \in Kinds
    /\ (kind = "ndvi" => impl = "legacy")
    /\ IdleCycle
    /\ IdleLut
    /\ \E t \in {NoTable, tableOf(1)} : tbl = [k \in Keys |-> IF k = TblKey THEN t ELSE NoTable]
    /\ run = [r \in Runners |-> NoRun]
    /\ dc = NoDc
    /\ mc = NoMc
    /\ fn = NoFn
    /\ dl = NoDl
    /\ zs = NoZs
    /\ up = NoUp
    /\ rc = NoRc
    /\ mr = NoMr
    /\ plan = NoPlan
    /\ probe = NoProbe
    /\ pg = NoPg
    /\ fl = NoFl

\* getStatsTables reports whether the table exists; zonal_stats gives the frame
TrStart(r) ==
    /\ run[r].pc = "idle"
    /\ \E a \in Acqs :
        run' = [run EXCEPT ![r] = [pc |-> IF tbl[TblKey].exists THEN "select" ELSE "create",
                                   acq |-> a, seen |-> tbl[TblKey].exists, alt |-> FALSE]]
    /\ UNCHANGED <<impl, kind, tbl>>
    /\ UNCHANGED <<status, datasets, s3, pc, args, todo, cur, ingestRet, us, cycles, lastOp>>
    /\ UNCHANGED lutVars
    /\ UNCHANGED planVars
    /\ UNCHANGED purgeVars
    /\ UNCHANGED filterVars
    /\ UNCHANGED merraVars
    /\ UNCHANGED rectVars
    /\ UNCHANGED pairVars
    /\ UNCHANGED zonalVars
    /\ UNCHANGED downloadVars
    /\ UNCHANGED nameVars
    /\ UNCHANGED collectionVars
    /\ UNCHANGED discoveryVars

\* create_stats_table: "CREATE TABLE stats_N (..)"; when the table exists the
\* statement fails, which only legacy handles ("except db.exc.InternalError:
\* append_to_stats_table(..)")
TrCreate(r) ==
    /\ run[r].pc = "create"
    /\ IF tbl[TblKey].exists
       THEN /\ run' = [run EXCEPT ![r].pc = IF impl = "legacy" THEN "select" ELSE "failed"]
            /\ UNCHANGED tbl
       ELSE /\ tbl' = [tbl EXCEPT ![TblKey] = createTable(run[r].acq)]
            /\ run' = [run EXCEPT ![r].pc = "rows"]
    /\ UNCHANGED <<impl, kind>>
    /\ UNCHANGED <<status, datasets, s3, pc, args, todo, cur, ingestRet, us, cycles, lastOp>>
    /\ UNCHANGED lutVars
    /\ UNCHANGED planVars
    /\ UNCHANGED purgeVars
    /\ UNCHANGED filterVars
    /\ UNCHANGED merraVars
    /\ UNCHANGED rectVars
    /\ UNCHANGED pairVars
    /\ UNCHANGED zonalVars
    /\ UNCHANGED downloadVars
    /\ UNCHANGED nameVars
    /\ UNCHANGED collectionVars
    /\ UNCHANGED discoveryVars

\* create_stats_table: df_subset.to_sql(.., if_exists='append')
TrRows(r) ==
    /\ run[r].pc = "rows"
    /\ tbl' = [tbl EXCEPT ![TblKey] = insertFrame(tbl[TblKey], run[r].acq, zonalRegions(TblKey))]
    /\ run' = [run EXCEPT ![r].pc = "done"]
    /\ UNCHANGED <<impl, kind>>
    /\ UNCHANGED <<status, datasets, s3, pc, args, todo, cur, ingestRet, us, cycles, lastOp>>
    /\ UNCHANGED lutVars
    /\ UNCHANGED planVars
    /\ UNCHANGED purgeVars
    /\ UNCHANGED filterVars
    /\ UNCHANGED merraVars
    /\ UNCHANGED rectVars
    /\ UNCHANGED pairVars
    /\ UNCHANGED zonalVars
    /\ UNCHANGED downloadVars
    /\ UNCHANGED nameVars
    /\ UNCHANGED collectionVars
    /\ UNCHANGED discoveryVars

\* append_to_stats_table: "SELECT `val.doy` FROM stats_N"
TrSelect(r) ==
    /\ run[r].pc = "select"
    /\ run' = [run EXCEPT ![r].pc = IF run[r].acq \in tbl[TblKey].cols THEN "update" ELSE "alter"]
    /\ UNCHANGED <<impl, kind, tbl>>
    /\ UNCHANGED <<status, datasets, s3, pc, args, todo, cur, ingestRet, us, cycles, lastOp>>
    /\ UNCHANGED lutVars
    /\ UNCHANGED planVars
    /\ UNCHANGED purgeVars
    /\ UNCHANGED filterVars
    /\ UNCHANGED merraVars
    /\ UNCHANGED rectVars
    /\ UNCHANGED pairVars
    /\ UNCHANGED zonalVars
    /\ UNCHANGED downloadVars
    /\ UNCHANGED nameVars
    /\ UNCHANGED collectionVars
    /\ UNCHANGED discoveryVars

\* whether "ALTER TABLE .. ADD" is wrapped in "try: .. except db.exc.InternalError"
alterGuarded(im, kd) == im = "legacy" /\ kd = "ancillary"

\* append_to_stats_table: "ALTER TABLE stats_N ADD `val.doy` float(2)"; the
\* statement fails when the column has appeared in the meantime
TrAlter(r) ==
    /\ run[r].pc = "alter"
    /\ IF run[r].acq \in tbl[TblKey].cols
       THEN /\ run' = [run EXCEPT ![r].pc = IF alterGuarded(impl, kind) THEN "update" ELSE "failed",
                                  ![r].alt = TRUE]
            /\ UNCHANGED tbl
       ELSE /\ tbl' = [tbl EXCEPT ![TblKey] = addColumn(tbl[TblKey], run[r].acq)]
            /\ run' = [run EXCEPT ![r].pc = "update", ![r].alt = TRUE]
    /\ UNCHANGED <<impl, kind>>
    /\ UNCHANGED <<status, datasets, s3, pc, args, todo, cur, ingestRet, us, cycles, lastOp>>
    /\ UNCHANGED lutVars
    /\ UNCHANGED planVars
    /\ UNCHANGED purgeVars
    /\ UNCHANGED filterVars
    /\ UNCHANGED merraVars
    /\ UNCHANGED rectVars
    /\ UNCHANGED pairVars
    /\ UNCHANGED zonalVars
    /\ UNCHANGED downloadVars
    /\ UNCHANGED nameVars
    /\ UNCHANGED collectionVars
    /\ UNCHANGED discoveryVars

\* append_to_stats_table: the UPDATE .. WHERE admin = r of every record of the
\* frame; ModisImage goes on to INSERT the records whose UPDATE matched no row
TrUpdate(r) ==
    /\ run[r].pc = "update"
    /\ tbl' = [tbl EXCEPT ![TblKey] = updateRows("ancillary", tbl[TblKey], run[r].acq, zonalRegions(TblKey))]
    /\ run' = [run EXCEPT ![r].pc =
                  IF kind = "ndvi" /\ zonalRegions(TblKey) \ tbl[TblKey].rows # {}
                  THEN "insert" ELSE "done"]
    /\ UNCHANGED <<impl, kind>>
    /\ UNCHANGED <<status, datasets, s3, pc, args, todo, cur, ingestRet, us, cycles, lastOp>>
    /\ UNCHANGED lutVars
    /\ UNCHANGED planVars
    /\ UNCHANGED purgeVars
    /\ UNCHANGED filterVars
    /\ UNCHANGED merraVars
    /\ UNCHANGED rectVars
    /\ UNCHANGED pairVars
    /\ UNCHANGED zonalVars
    /\ UNCHANGED downloadVars
    /\ UNCHANGED nameVars
    /\ UNCHANGED collectionVars
    /\ UNCHANGED discoveryVars

\* ModisImage: "INSERT INTO stats_N (admin, arable, `val.doy`, `pct.doy`)".
\* The table has no unique key on admin, so the INSERT cannot fail; a second
\* row of the same admin does not show in the set of rows.
TrInsert(r) ==
    /\ run[r].pc = "insert"
    /\ tbl' = [tbl EXCEPT ![TblKey] = insertFrame(tbl[TblKey], run[r].acq, zonalRegions(TblKey))]
    /\ run' = [run EXCEPT ![r].pc = "done"]
    /\ UNCHANGED <<impl, kind>>
    /\ UNCHANGED <<status, datasets, s3, pc, args, todo, cur, ingestRet, us, cycles, lastOp>>
    /\ UNCHANGED lutVars
    /\ UNCHANGED planVars
    /\ UNCHANGED purgeVars
    /\ UNCHANGED filterVars
    /\ UNCHANGED merraVars
    /\ UNCHANGED rectVars
    /\ UNCHANGED pairVars
    /\ UNCHANGED zonalVars
    /\ UNCHANGED downloadVars
    /\ UNCHANGED nameVars
    /\ UNCHANGED collectionVars
    /\ UNCHANGED discoveryVars

NextTbl ==
    \E r \in Runners :
        \/ TrStart(r)
        \/ TrCreate(r)
        \/ TrRows(r)
        \/ TrSelect(r)
        \/ TrAlter(r)
        \/ TrUpdate(r)
        \/ TrInsert(r)

SpecTbl == InitTbl /\ [][NextTbl]_vars

(***************************************************************************)
(* The planner of expected dates: the getChrono* loops of ToDoList.refresh *)
(* and the same loops of listAvailable.  A date is the number of its day   *)
(* in a calendar that begins on 2019-11-01, so that a change of month, a   *)
(* change of year and the example of the specification are all inside.     *)
(***************************************************************************)
\* the months of the calendar: year, month, length, day of year of its day 01
Calendar ==
    << [y |-> 2019, m |-> 11, len |-> 30, doy0 |-> 305],
       [y |-> 2019, m |-> 12, len |-> 31, doy0 |-> 335],
       [y |-> 2020, m |-> 1,  len |-> 31, doy0 |-> 1],
       [y |-> 2020, m |-> 2,  len |-> 29, doy0 |-> 32] >>

\* the date of day 01 of month i of the calendar
RECURSIVE MonthStart(_)
MonthStart(i) == IF i = 1 THEN 1 ELSE MonthStart(i - 1) + Calendar[i - 1].len

\* the month of the calendar that date n is in
MonthOf(n) ==
    CHOOSE i \in 1..Len(Calendar) : MonthStart(i) <= n /\ n < MonthStart(i) + Calendar[i].len

\* strftime("%d"), date.year, strftime("%j")
DayOfMonth(n) == n - MonthStart(MonthOf(n)) + 1
YearOf(n) == Calendar[MonthOf(n)].y
DayOfYear(n) == Calendar[MonthOf(n)].doy0 + DayOfMonth(n) - 1

\* date.replace(day=d)
replaceDay(n, d) == MonthStart(MonthOf(n)) + d - 1

\* the earliest and the latest date that the catalog or the clock may hold
FirstDate == 21
LastDate == 81

Products == {"merra-2", "chirps", "chirps-prelim", "swi", "MOD09Q1", "MYD09Q1",
             "MOD13Q1", "MYD13Q1", "MOD13Q4N"}

\* the products that ToDoList.refresh of an implementation plans
ProductsOf(im) == IF im = "legacy" THEN Products ELSE Products \ {"MOD13Q4N"}

\* the step of the dekad products, as the code would do without the reset
stepChirpsNoReset(n) == IF DayOfMonth(n) > 12 THEN n + 15 ELSE n + 10

\* the step of getChronoChirps and getChronoChirpsPrelim
stepChirps(n) == IF DayOfMonth(n) > 12 THEN replaceDay(n + 15, 1) ELSE n + 10

\* a step of k days that ignores the change of year
stepNdviNoReset(n, k, d) == n + k

\* the step of the NDVI products: k days on, and to day d of the month when
\* the year changed
stepNdvi(n, k, d) == IF YearOf(n + k) # YearOf(n) THEN replaceDay(n + k, d) ELSE n + k

\* the body of the loop of getChrono<product>
step(product, n) ==
    CASE product = "merra-2" -> n + 1
      [] product \in {"chirps", "chirps-prelim"} -> stepChirps(n)
      [] product = "swi" -> n + 5
      [] product \in {"MOD09Q1", "MYD09Q1"} -> stepNdvi(n, 8, 1)
      [] product = "MOD13Q1" -> stepNdvi(n, 16, 1)
      [] product = "MYD13Q1" -> stepNdvi(n, 16, 9)
      [] product = "MOD13Q4N" -> stepNdvi(n, 1, 1)

\* getChrono<product>(latest) is called with the latest date of the catalog,
\* listAvailable with the start date of its caller, at any clock date
InitPlan ==
    /\ impl \in Impls
    /\ kind = "ancillary"
    /\ IdleCycle
    /\ IdleLut
    /\ tbl = [k \in Keys |-> NoTable]
    /\ run = [r \in Runners |-> NoRun]
    /\ dc = NoDc
    /\ mc = NoMc
    /\ fn = NoFn
    /\ dl = NoDl
    /\ zs = NoZs
    /\ up = NoUp
    /\ rc = NoRc
    /\ mr = NoMr
    /\ \E p \in ProductsOf(impl), l \in FirstDate..LastDate, t \in FirstDate..LastDate :
        plan = [pc |-> "loop", product |-> p, start |-> l, today |-> t, latest |-> l,
                prev |-> l, out |-> {}]
    /\ probe = NoProbe
    /\ pg = NoPg
    /\ fl = NoFl

\* one turn of `while latest < today`: step, then append the date
PlanStep ==
    /\ plan.pc = "loop"
    /\ plan.latest < plan.today
    /\ plan' = [plan EXCEPT !.prev = plan.latest,
                            !.latest = step(plan.product, plan.latest),
                            !.out = plan.out \cup {step(plan.product, plan.latest)}]
    /\ UNCHANGED <<impl, kind, probe>>
    /\ UNCHANGED cycleVars
    /\ UNCHANGED lutVars
    /\ UNCHANGED raceVars
    /\ UNCHANGED purgeVars
    /\ UNCHANGED filterVars
    /\ UNCHANGED merraVars
    /\ UNCHANGED rectVars
    /\ UNCHANGED pairVars
    /\ UNCHANGED zonalVars
    /\ UNCHANGED downloadVars
    /\ UNCHANGED nameVars
    /\ UNCHANGED collectionVars
    /\ UNCHANGED discoveryVars

\* the loop is left; updateDatabase inserts every date of the list as pending
PlanDone ==
    /\ plan.pc = "loop"
    /\ ~(plan.latest < plan.today)
    /\ plan' = [plan EXCEPT !.pc = "done"]
    /\ UNCHANGED <<impl, kind, probe>>
    /\ UNCHANGED cycleVars
    /\ UNCHANGED lutVars
    /\ UNCHANGED raceVars
    /\ UNCHANGED purgeVars
    /\ UNCHANGED filterVars
    /\ UNCHANGED merraVars
    /\ UNCHANGED rectVars
    /\ UNCHANGED pairVars
    /\ UNCHANGED zonalVars
    /\ UNCHANGED downloadVars
    /\ UNCHANGED nameVars
    /\ UNCHANGED collectionVars
    /\ UNCHANGED discoveryVars

NextPlan == PlanStep \/ PlanDone

SpecPlan == InitPlan /\ [][NextPlan]_vars

(***************************************************************************)
(* The dekad index of the upstream precipitation URL, built by the probe   *)
(* (isAvailable) and by the fetch (pullFromSource) from the date they are  *)
(* given.                                                                  *)
(***************************************************************************)
\* an index that counts the tens of the day
cDayTens(d) == (d \div 10) + 1

\* cDay = int(np.ceil(int(cDate.strftime("%d"))/10)) for day of month d
cDay(d) == (d + 9) \div 10

InitUrl ==
    /\ impl \in Impls
    /\ kind = "ancillary"
    /\ IdleCycle
    /\ IdleLut
    /\ tbl = [k \in Keys |-> NoTable]
    /\ run = [r \in Runners |-> NoRun]
    /\ dc = NoDc
    /\ mc = NoMc
    /\ fn = NoFn
    /\ dl = NoDl
    /\ zs = NoZs
    /\ up = NoUp
    /\ rc = NoRc
    /\ mr = NoMr
    /\ plan = NoPlan
    /\ \E p \in {"chirps", "chirps-prelim"}, d \in FirstDate..LastDate :
        probe = [by |-> "none", product |-> p, date |-> d, cDay |-> 0]
    /\ pg = NoPg
    /\ fl = NoFl

\* checkChirps / checkChirpsPrelim build the URL of the date they probe
isAvailable ==
    /\ probe.by = "none"
    /\ probe' = [probe EXCEPT !.by = "probe", !.cDay = cDay(DayOfMonth(probe.date))]
    /\ UNCHANGED <<impl, kind, plan>>
    /\ UNCHANGED cycleVars
    /\ UNCHANGED lutVars
    /\ UNCHANGED raceVars
    /\ UNCHANGED purgeVars
    /\ UNCHANGED filterVars
    /\ UNCHANGED merraVars
    /\ UNCHANGED rectVars
    /\ UNCHANGED pairVars
    /\ UNCHANGED zonalVars
    /\ UNCHANGED downloadVars
    /\ UNCHANGED nameVars
    /\ UNCHANGED collectionVars
    /\ UNCHANGED discoveryVars

\* downloadChirps / downloadChirpsPrelim build the URL of the date they fetch
pullFromSource ==
    /\ probe.by \in {"none", "probe"}
    /\ probe' = [probe EXCEPT !.by = "fetch", !.cDay = cDay(DayOfMonth(probe.date))]
    /\ UNCHANGED <<impl, kind, plan>>
    /\ UNCHANGED cycleVars
    /\ UNCHANGED lutVars
    /\ UNCHANGED raceVars
    /\ UNCHANGED purgeVars
    /\ UNCHANGED filterVars
    /\ UNCHANGED merraVars
    /\ UNCHANGED rectVars
    /\ UNCHANGED pairVars
    /\ UNCHANGED zonalVars
    /\ UNCHANGED downloadVars
    /\ UNCHANGED nameVars
    /\ UNCHANGED collectionVars
    /\ UNCHANGED discoveryVars

NextUrl == isAvailable \/ pullFromSource

SpecUrl == InitUrl /\ [][NextUrl]_vars

(***************************************************************************)
(* The definitive precipitation product (chirps) and the preliminary one   *)
(* (chirps-prelim) at two dates: updateData with its purge of the          *)
(* preliminary, the command `clean`, and purge called by itself.           *)
(***************************************************************************)
\* what the catalog, the bucket and the stats tables may hold of a definitive
\* and of a preliminary acquisition before an update
FinItems == {[row |-> "pending", obj |-> FALSE, cols |-> {}],
             [row |-> "completed", obj |-> TRUE, cols |-> Keys]}

PreItems == {NoItem,
             [row |-> "pending", obj |-> FALSE, cols |-> {}],
             [row |-> "processed", obj |-> TRUE, cols |-> {}],
             [row |-> "completed", obj |-> TRUE, cols |-> {TblKey}],
             [row |-> "completed", obj |-> TRUE, cols |-> Keys]}

\* the stats tables of the preliminary product that exist (st.exists)
tablesOf(st) == UNION {st.pre[d].cols : d \in PDates}

\* everything purge deletes of the preliminary acquisition of date d
Removed(st, d) == [st EXCEPT !.pre[d] = NoItem]

\* legacy.purge: DROP COLUMN `val.doy` / `pct.doy` on every existing table,
\* DELETE FROM product_status, DELETE FROM datasets, delete the object
purgeLegacy(st, d) == {[st |-> Removed(st, d), ret |-> "True"]}

\* purge of __init__.py: nothing is done when the object cannot be pulled;
\* DROP COLUMN names the column without quotes, so no column named val.doy is
\* dropped: the statement's error either leaves purge (it is no InternalError)
\* or is taken for a missing column, and purge deletes the records and the object
purgeInit(st, d) ==
    IF ~st.pre[d].obj THEN {[st |-> st, ret |-> "None"]}
    ELSE IF tablesOf(st) = {} THEN {[st |-> Removed(st, d), ret |-> "True"]}
    ELSE {[st |-> st, ret |-> "raised"],
          [st |-> [st EXCEPT !.pre[d] = [row |-> "none", obj |-> FALSE, cols |-> @.cols]],
           ret |-> "True"]}

\* purge('chirps-prelim', d, auth_key): the outcomes of one call
purge(im, st, d, key) ==
    IF key # "right" THEN {[st |-> st, ret |-> "None"]}
    ELSE IF im = "legacy" THEN purgeLegacy(st, d)
    ELSE purgeInit(st, d)

\* the definitive acquisition of date d has been ingested
finProcessed(st, d) == st.fin[d].row \in {"processed", "completed"}

\* the record of a purge that the update or `clean` invoked for date d
invoked(g, d) ==
    [g.inv EXCEPT ![d] = IF finProcessed(g.st, d) /\ @ # "early" THEN "after" ELSE "early"]

InitPurge ==
    /\ impl \in Impls
    /\ kind = "ancillary"
    /\ IdleCycle
    /\ IdleLut
    /\ tbl = [k \in Keys |-> NoTable]
    /\ run = [r \in Runners |-> NoRun]
    /\ dc = NoDc
    /\ mc = NoMc
    /\ fn = NoFn
    /\ dl = NoDl
    /\ zs = NoZs
    /\ up = NoUp
    /\ rc = NoRc
    /\ mr = NoMr
    /\ plan = NoPlan
    /\ probe = NoProbe
    /\ \E f \in [PDates -> FinItems], p \in [PDates -> PreItems] :
        pg = [NoPg EXCEPT !.st = [fin |-> f, pre |-> p]]
    /\ fl = NoFl

\* updateData (updateGlamData in legacy.py) takes the definitive acquisition
\* of date d from its to-do list and has its file
PgStart(d) ==
    /\ pg.pc = "idle"
    /\ pg.st.fin[d].row \in {"pending", "processed"}
    /\ \E all \in BOOLEAN :
        pg' = [pg EXCEPT !.cur = d,
                         !.pc = IF impl = "init" /\ all THEN "purge" ELSE "ingest"]
    /\ UNCHANGED <<impl, kind, plan, probe, fl>>
    /\ UNCHANGED cycleVars
    /\ UNCHANGED lutVars
    /\ UNCHANGED raceVars
    /\ UNCHANGED merraVars
    /\ UNCHANGED rectVars
    /\ UNCHANGED pairVars
    /\ UNCHANGED zonalVars
    /\ UNCHANGED downloadVars
    /\ UNCHANGED nameVars
    /\ UNCHANGED collectionVars
    /\ UNCHANGED discoveryVars

\* glam.purge('chirps-prelim', image.date, os.environ['glam_purge_key']),
\* before setStatus('downloaded') and ingest of the definitive
PgPurge ==
    /\ pg.pc = "purge"
    /\ \/ pg' = [pg EXCEPT !.pc = "ingest"]
       \/ \E key \in {"wrong", "right"} : \E o \in purge(impl, pg.st, pg.cur, key) :
            pg' = [pg EXCEPT !.inv = invoked(pg, pg.cur),
                             !.last = pg.cur, !.key = key, !.before = pg.st,
                             !.after = o.st, !.ret = o.ret, !.st = o.st,
                             !.pc = IF o.ret = "raised" THEN "idle" ELSE "ingest",
                             !.cur = IF o.ret = "raised" THEN 0 ELSE pg.cur]
    /\ UNCHANGED <<impl, kind, plan, probe, fl>>
    /\ UNCHANGED cycleVars
    /\ UNCHANGED lutVars
    /\ UNCHANGED raceVars
    /\ UNCHANGED merraVars
    /\ UNCHANGED rectVars
    /\ UNCHANGED pairVars
    /\ UNCHANGED zonalVars
    /\ UNCHANGED downloadVars
    /\ UNCHANGED nameVars
    /\ UNCHANGED collectionVars
    /\ UNCHANGED discoveryVars

\* image.ingest() and setStatus('processed'), or the ingest raises (FAILED)
PgIngest ==
    /\ pg.pc = "ingest"
    /\ \/ pg' = [pg EXCEPT !.pc = "stats",
                           !.st.fin[pg.cur] = [@ EXCEPT !.row = "processed", !.obj = TRUE]]
       \/ pg' = [pg EXCEPT !.pc = "idle", !.cur = 0]
    /\ UNCHANGED <<impl, kind, plan, probe, fl>>
    /\ UNCHANGED cycleVars
    /\ UNCHANGED lutVars
    /\ UNCHANGED raceVars
    /\ UNCHANGED merraVars
    /\ UNCHANGED rectVars
    /\ UNCHANGED pairVars
    /\ UNCHANGED zonalVars
    /\ UNCHANGED downloadVars
    /\ UNCHANGED nameVars
    /\ UNCHANGED collectionVars
    /\ UNCHANGED discoveryVars

\* image.uploadStats() and setStatus('statGen'), or uploadStats raises
PgStats ==
    /\ pg.pc = "stats"
    /\ \/ pg' = [pg EXCEPT !.pc = "idle", !.cur = 0,
                           !.st.fin[pg.cur] = [@ EXCEPT !.row = "completed", !.cols = Keys]]
       \/ pg' = [pg EXCEPT !.pc = "idle", !.cur = 0]
    /\ UNCHANGED <<impl, kind, plan, probe, fl>>
    /\ UNCHANGED cycleVars
    /\ UNCHANGED lutVars
    /\ UNCHANGED raceVars
    /\ UNCHANGED merraVars
    /\ UNCHANGED rectVars
    /\ UNCHANGED pairVars
    /\ UNCHANGED zonalVars
    /\ UNCHANGED downloadVars
    /\ UNCHANGED nameVars
    /\ UNCHANGED collectionVars
    /\ UNCHANGED discoveryVars

\* SELECT MAX(date) .. WHERE product='chirps' AND completed=1
latestChirps(st) ==
    CHOOSE d \in PDates :
        /\ st.fin[d].row = "completed"
        /\ \A e \in PDates : st.fin[e].row = "completed" => e <= d

\* `clean`: the preliminary images of the datasets table (getAllS3) that are
\* not later than the latest completed definitive
CleanStart ==
    /\ pg.pc = "idle"
    /\ impl = "init"
    /\ \E d \in PDates : pg.st.fin[d].row = "completed"
    /\ pg' = [pg EXCEPT !.pc = "clean",
                        !.todo = SeqOf({d \in PDates : /\ pg.st.pre[d].obj
                                                       /\ d <= latestChirps(pg.st)})]
    /\ UNCHANGED <<impl, kind, plan, probe, fl>>
    /\ UNCHANGED cycleVars
    /\ UNCHANGED lutVars
    /\ UNCHANGED raceVars
    /\ UNCHANGED merraVars
    /\ UNCHANGED rectVars
    /\ UNCHANGED pairVars
    /\ UNCHANGED zonalVars
    /\ UNCHANGED downloadVars
    /\ UNCHANGED nameVars
    /\ UNCHANGED collectionVars
    /\ UNCHANGED discoveryVars

\* glam.purge(*ct, auth_key=..) for the next preliminary of `clean`; an error
\* of purge ends the command
CleanPurge ==
    /\ pg.pc = "clean"
    /\ pg.todo # <<>>
    /\ \E o \in purge(impl, pg.st, Head(pg.todo), "right") :
        pg' = [pg EXCEPT !.inv = invoked(pg, Head(pg.todo)),
                         !.last = Head(pg.todo), !.key = "right", !.before = pg.st,
                         !.after = o.st, !.ret = o.ret, !.st = o.st,
                         !.todo = IF o.ret = "raised" THEN <<>> ELSE Tail(pg.todo),
                         !.pc = IF o.ret = "raised" THEN "idle" ELSE "clean"]
    /\ UNCHANGED <<impl, kind, plan, probe, fl>>
    /\ UNCHANGED cycleVars
    /\ UNCHANGED lutVars
    /\ UNCHANGED raceVars
    /\ UNCHANGED merraVars
    /\ UNCHANGED rectVars
    /\ UNCHANGED pairVars
    /\ UNCHANGED zonalVars
    /\ UNCHANGED downloadVars
    /\ UNCHANGED nameVars
    /\ UNCHANGED collectionVars
    /\ UNCHANGED discoveryVars

CleanEnd ==
    /\ pg.pc = "clean"
    /\ pg.todo = <<>>
    /\ pg' = [pg EXCEPT !.pc = "idle"]
    /\ UNCHANGED <<impl, kind, plan, probe, fl>>
    /\ UNCHANGED cycleVars
    /\ UNCHANGED lutVars
    /\ UNCHANGED raceVars
    /\ UNCHANGED merraVars
    /\ UNCHANGED rectVars
    /\ UNCHANGED pairVars
    /\ UNCHANGED zonalVars
    /\ UNCHANGED downloadVars
    /\ UNCHANGED nameVars
    /\ UNCHANGED collectionVars
    /\ UNCHANGED discoveryVars

\* purge('chirps-prelim', d, key) called by itself
PurgeCall(d) ==
    /\ pg.pc = "idle"
    /\ \E key \in {"wrong", "right"} : \E o \in purge(impl, pg.st, d, key) :
        pg' = [pg EXCEPT !.last = d, !.key = key, !.before = pg.st,
                         !.after = o.st, !.ret = o.ret, !.st = o.st]
    /\ UNCHANGED <<impl, kind, plan, probe, fl>>
    /\ UNCHANGED cycleVars
    /\ UNCHANGED lutVars
    /\ UNCHANGED raceVars
    /\ UNCHANGED merraVars
    /\ UNCHANGED rectVars
    /\ UNCHANGED pairVars
    /\ UNCHANGED zonalVars
    /\ UNCHANGED downloadVars
    /\ UNCHANGED nameVars
    /\ UNCHANGED collectionVars
    /\ UNCHANGED discoveryVars

NextPurge ==
    \/ \E d \in PDates : PgStart(d) \/ PurgeCall(d)
    \/ PgPurge
    \/ PgIngest
    \/ PgStats
    \/ CleanStart
    \/ CleanPurge
    \/ CleanEnd

SpecPurge == InitPurge /\ [][NextPurge]_vars

(***************************************************************************)
(* An update cycle seen from its candidates: filterUnavailable probes each *)
(* candidate of the to-do list, then the loop of updateData (of            *)
(* updateGlamData in legacy.py) attempts each candidate that was kept.     *)
(***************************************************************************)
\* the longest to-do list
MaxCands == 3

\* the ancillary products, in the order filterUnavailable and __iter__ take them
FlOrder == <<"chirps", "chirps-prelim", "merra-2", "swi">>

\* what the source may answer to the request of a probe: the file is there,
\* it is not (404), the month's listing lacks the file, a server error (5xx),
\* a connection error or timeout
Outcomes == {"yes", "no", "absent", "http5xx", "conn"}

OutcomesOf(product) == IF product = "merra-2" THEN Outcomes ELSE Outcomes \ {"absent"}

\* Downloader.isAvailable(product, date): True, False, or the exception that
\* none of its handlers takes
probeResult(im, product, o) ==
    CASE product \in {"chirps", "chirps-prelim"} -> IF o = "yes" THEN "True" ELSE "False"
      [] product = "merra-2" ->
            IF o = "yes" THEN "True"
            ELSE IF o \in {"no", "http5xx"} THEN "False"
            ELSE IF o = "absent" /\ im = "legacy" THEN "False"
            ELSE "raise"
      [] product = "swi" ->
            IF o = "yes" THEN "True"
            ELSE IF o \in {"no", "http5xx"} THEN "False"
            ELSE "raise"

\* ToDoList() has listed the missing acquisitions and filterUnavailable begins
InitFilter ==
    /\ impl \in Impls
    /\ kind = "ancillary"
    /\ IdleCycle
    /\ IdleLut
    /\ tbl = [k \in Keys |-> NoTable]
    /\ run = [r \in Runners |-> NoRun]
    /\ dc = NoDc
    /\ mc = NoMc
    /\ fn = NoFn
    /\ dl = NoDl
    /\ zs = NoZs
    /\ up = NoUp
    /\ rc = NoRc
    /\ mr = NoMr
    /\ plan = NoPlan
    /\ probe = NoProbe
    /\ pg = NoPg
    /\ \E n \in 1..MaxCands : \E f \in [1..n -> 1..Len(FlOrder)] :
        /\ \A j \in 1..(n - 1) : f[j] <= f[j + 1]
        /\ fl = [NoFl EXCEPT !.pc = "filter", !.i = 1,
                             !.cands = [j \in 1..n |-> FlOrder[f[j]]]]

\* one element of a list comprehension of filterUnavailable
FlProbe ==
    /\ fl.pc = "filter"
    /\ fl.i <= Len(fl.cands)
    /\ \E o \in OutcomesOf(fl.cands[fl.i]) :
        LET r == probeResult(impl, fl.cands[fl.i], o) IN
        fl' = [fl EXCEPT !.probes = Append(fl.probes, o),
                         !.kept = IF r = "True" THEN fl.kept \cup {fl.i} ELSE fl.kept,
                         !.i = fl.i + 1,
                         !.pc = IF r = "raise" THEN "raised" ELSE "filter"]
    /\ UNCHANGED <<impl, kind, plan, probe, pg>>
    /\ UNCHANGED cycleVars
    /\ UNCHANGED lutVars
    /\ UNCHANGED raceVars
    /\ UNCHANGED merraVars
    /\ UNCHANGED rectVars
    /\ UNCHANGED pairVars
    /\ UNCHANGED zonalVars
    /\ UNCHANGED downloadVars
    /\ UNCHANGED nameVars
    /\ UNCHANGED collectionVars
    /\ UNCHANGED discoveryVars

\* filterUnavailable returns and the loop over the to-do list begins
FlFiltered ==
    /\ fl.pc = "filter"
    /\ fl.i > Len(fl.cands)
    /\ fl' = [fl EXCEPT !.pc = "loop"]
    /\ UNCHANGED <<impl, kind, plan, probe, pg>>
    /\ UNCHANGED cycleVars
    /\ UNCHANGED lutVars
    /\ UNCHANGED raceVars
    /\ UNCHANGED merraVars
    /\ UNCHANGED rectVars
    /\ UNCHANGED pairVars
    /\ UNCHANGED zonalVars
    /\ UNCHANGED downloadVars
    /\ UNCHANGED nameVars
    /\ UNCHANGED collectionVars
    /\ UNCHANGED discoveryVars

\* the body of the loop for the next candidate: it ends well, with
\* UnavailableError (logged as no file available) or with any other exception
\* of the fetch, the ingest or the statistics (logged as FAILED)
FlAttempt ==
    /\ fl.pc = "loop"
    /\ fl.kept \ fl.tried # {}
    /\ LET j == CHOOSE x \in fl.kept \ fl.tried : \A y \in fl.kept \ fl.tried : x <= y IN
       \E end \in {"ok", "unavailable", "failed"} :
        fl' = [fl EXCEPT !.tried = fl.tried \cup {j},
                         !.logged = IF end = "ok" THEN fl.logged ELSE fl.logged \cup {j}]
    /\ UNCHANGED <<impl, kind, plan, probe, pg>>
    /\ UNCHANGED cycleVars
    /\ UNCHANGED lutVars
    /\ UNCHANGED raceVars
    /\ UNCHANGED merraVars
    /\ UNCHANGED rectVars
    /\ UNCHANGED pairVars
    /\ UNCHANGED zonalVars
    /\ UNCHANGED downloadVars
    /\ UNCHANGED nameVars
    /\ UNCHANGED collectionVars
    /\ UNCHANGED discoveryVars

FlEnd ==
    /\ fl.pc = "loop"
    /\ fl.kept \ fl.tried = {}
    /\ fl' = [fl EXCEPT !.pc = "done"]
    /\ UNCHANGED <<impl, kind, plan, probe, pg>>
    /\ UNCHANGED cycleVars
    /\ UNCHANGED lutVars
    /\ UNCHANGED raceVars
    /\ UNCHANGED merraVars
    /\ UNCHANGED rectVars
    /\ UNCHANGED pairVars
    /\ UNCHANGED zonalVars
    /\ UNCHANGED downloadVars
    /\ UNCHANGED nameVars
    /\ UNCHANGED collectionVars
    /\ UNCHANGED discoveryVars

NextFilter == FlProbe \/ FlFiltered \/ FlAttempt \/ FlEnd

SpecFilter == InitFilter /\ [][NextFilter]_vars

(***************************************************************************)
(* The temperature product (merra-2) of date D is a mosaic of the files of *)
(* the five days D, D-1, .., D-4.  The probe and the fetch look each file  *)
(* up in the listing of its month.                                         *)
(***************************************************************************)
\* the number of days of the mosaic
MerraDays == 5

\* what urlopen(pageUrl) and re.search find for one day: the file is listed,
\* the page is there without the file, or the page is not there (HTTPError)
Listings == {"listed", "absent", "nopage"}

\* the loop `for i in range(5)` from day i on: the exception that ends it
\* ("HTTPError" or "AttributeError"), or "none" when every file is found
RECURSIVE lookUp(_, _)
lookUp(listing, i) ==
    IF i > MerraDays THEN "none"
    ELSE IF listing[i] = "nopage" THEN "HTTPError"
    ELSE IF listing[i] = "absent" THEN "AttributeError"
    ELSE lookUp(listing, i + 1)

\* Downloader.isAvailable.checkMerra: legacy.py has `except AttributeError`,
\* __init__.py has not
checkMerra(im, listing) ==
    CASE lookUp(listing, 1) = "none" -> "True"
      [] lookUp(listing, 1) = "HTTPError" -> "False"
      [] lookUp(listing, 1) = "AttributeError" -> IF im = "legacy" THEN "False" ELSE "raise"

\* the list of URLs of pullFromSource.downloadMerra2: `except HTTPError` only
downloadMerra2(im, listing) ==
    CASE lookUp(listing, 1) = "none" -> "urls"
      [] lookUp(listing, 1) = "HTTPError" -> "()"
      [] lookUp(listing, 1) = "AttributeError" -> "raise"

InitMerra ==
    /\ impl \in Impls
    /\ kind = "ancillary"
    /\ IdleCycle
    /\ IdleLut
    /\ tbl = [k \in Keys |-> NoTable]
    /\ run = [r \in Runners |-> NoRun]
    /\ dc = NoDc
    /\ mc = NoMc
    /\ fn = NoFn
    /\ dl = NoDl
    /\ zs = NoZs
    /\ up = NoUp
    /\ rc = NoRc
    /\ \E l \in [1..MerraDays -> Listings] : mr = [NoMr EXCEPT !.listing = l]
    /\ plan = NoPlan
    /\ probe = NoProbe
    /\ pg = NoPg
    /\ fl = NoFl

\* isAvailable('merra-2', D)
MrProbe ==
    /\ mr.by = "none"
    /\ mr' = [mr EXCEPT !.by = "probe", !.ret = checkMerra(impl, mr.listing)]
    /\ UNCHANGED <<impl, kind>>
    /\ UNCHANGED cycleVars
    /\ UNCHANGED lutVars
    /\ UNCHANGED raceVars
    /\ UNCHANGED planVars
    /\ UNCHANGED purgeVars
    /\ UNCHANGED filterVars
    /\ UNCHANGED rectVars
    /\ UNCHANGED pairVars
    /\ UNCHANGED zonalVars
    /\ UNCHANGED downloadVars
    /\ UNCHANGED nameVars
    /\ UNCHANGED collectionVars
    /\ UNCHANGED discoveryVars

\* pullFromSource('merra-2', D, out_dir), up to its list of URLs
MrFetch ==
    /\ mr.by \in {"none", "probe"}
    /\ mr' = [mr EXCEPT !.by = "fetch", !.ret = downloadMerra2(impl, mr.listing)]
    /\ UNCHANGED <<impl, kind>>
    /\ UNCHANGED cycleVars
    /\ UNCHANGED lutVars
    /\ UNCHANGED raceVars
    /\ UNCHANGED planVars
    /\ UNCHANGED purgeVars
    /\ UNCHANGED filterVars
    /\ UNCHANGED rectVars
    /\ UNCHANGED pairVars
    /\ UNCHANGED zonalVars
    /\ UNCHANGED downloadVars
    /\ UNCHANGED nameVars
    /\ UNCHANGED collectionVars
    /\ UNCHANGED discoveryVars

NextMerra == MrProbe \/ MrFetch

SpecMerra == InitMerra /\ [][NextMerra]_vars

(***************************************************************************)
(* MissingStatistics of legacy.py for one acquisition: generate() scans    *)
(* the stats tables with getMissingStats, rectify() calls fillFile, which  *)
(* runs uploadStats for every missing (admin, crop) pair, and a later scan *)
(* looks again.                                                            *)
(***************************************************************************)
\* getMissingStats: the permitted pairs whose table does not exist or lacks
\* the column val.doy of acquisition a, in the order of the dictionary
missingCombos(t, a) ==
    SelectSeq(KeyOrder, LAMBDA k : /\ k[1] \in admin_crops_matchup[k[2]]
                                   /\ (~t[k].exists \/ a \notin t[k].cols))

\* "if len(missingCombos) == 0: img.setStatus('statGen',True)"
scanStatus(st, t, a) ==
    IF missingCombos(t, a) = <<>> THEN setStatusRow("legacy", st, a, "statGen", 1) ELSE st

\* a stats table that another acquisition b created
tableFor(b) == insertFrame(createTable(b), b, RegionIds)

\* uploadStats(admin_specified, crop_specified) at the table of its pair, when
\* zonal_stats gave a data frame
fillTable(kd, t, a) ==
    IF t.exists THEN append_to_stats_table(kd, t, a, RegionIds)
    ELSE insertFrame(createTable(a), a, RegionIds)

InitRect ==
    /\ impl = "legacy"
    /\ kind \in Kinds
    /\ datasets = {}
    /\ s3 = {}
    /\ pc = "idle"
    /\ args = NoArgs
    /\ todo = <<>>
    /\ cur = 0
    /\ ingestRet = FALSE
    /\ us = NoUs
    /\ cycles = 0
    /\ lastOp = Op("init", 0)
    /\ IdleLut
    /\ run = [r \in Runners |-> NoRun]
    /\ dc = NoDc
    /\ mc = NoMc
    /\ fn = NoFn
    /\ dl = NoDl
    /\ zs = NoZs
    /\ up = NoUp
    /\ mr = NoMr
    /\ plan = NoPlan
    /\ probe = NoProbe
    /\ pg = NoPg
    /\ fl = NoFl
    /\ \E a \in Acqs :
        /\ rc = [NoRc EXCEPT !.acq = a]
        /\ \E r \in {Row(1, 0, 0), Row(1, 1, 1), Row(1, Null, 0)} :
            status = [b \in Acqs |-> IF b = a THEN r ELSE NoRow]
        /\ tbl \in [Keys -> {NoTable, tableFor(3 - a), insertFrame(addColumn(tableFor(3 - a), a), a, RegionIds)}]

\* generate(): getMissingStats of the acquisition; only an acquisition with
\* missing pairs enters self.data
RcGenerate ==
    /\ rc.pc = "idle"
    /\ status' = scanStatus(status, tbl, rc.acq)
    /\ rc' = [rc EXCEPT !.data = missingCombos(tbl, rc.acq),
                        !.left = missingCombos(tbl, rc.acq),
                        !.pc = IF missingCombos(tbl, rc.acq) = <<>> THEN "nothing" ELSE "fill"]
    /\ UNCHANGED <<impl, kind, datasets, s3, tbl, pc, args, todo, cur, ingestRet, us, cycles, lastOp>>
    /\ UNCHANGED lutVars
    /\ UNCHANGED raceVars
    /\ UNCHANGED planVars
    /\ UNCHANGED purgeVars
    /\ UNCHANGED filterVars
    /\ UNCHANGED merraVars
    /\ UNCHANGED pairVars
    /\ UNCHANGED zonalVars
    /\ UNCHANGED downloadVars
    /\ UNCHANGED nameVars
    /\ UNCHANGED collectionVars
    /\ UNCHANGED discoveryVars

\* fillFile: img.uploadStats(admin_specified=t[0], crop_specified=t[1]) for the
\* next missing pair.  zonal_stats gives a data frame, gives None, or raises
\* RuntimeError, which Image.uploadStats logs and ModisImage.uploadStats does
\* not take; uploadStats then sets statGen, its levels being "ALL"
RcFill ==
    /\ rc.pc = "fill"
    /\ rc.left # <<>>
    /\ LET k == Head(rc.left) IN
       \E out \in {"frame", "None", "RuntimeError"} :
        IF out = "RuntimeError" /\ kind = "ndvi"
        THEN /\ rc' = [rc EXCEPT !.pc = "failed", !.ret = "False", !.left = <<>>]
             /\ UNCHANGED <<tbl, status>>
        ELSE /\ rc' = [rc EXCEPT !.left = Tail(rc.left)]
             /\ tbl' = IF out = "frame" THEN [tbl EXCEPT ![k] = fillTable(kind, tbl[k], rc.acq)]
                       ELSE tbl
             /\ status' = statGenMark(status, rc.acq)
    /\ UNCHANGED <<impl, kind, datasets, s3, pc, args, todo, cur, ingestRet, us, cycles, lastOp>>
    /\ UNCHANGED lutVars
    /\ UNCHANGED raceVars
    /\ UNCHANGED planVars
    /\ UNCHANGED purgeVars
    /\ UNCHANGED filterVars
    /\ UNCHANGED merraVars
    /\ UNCHANGED pairVars
    /\ UNCHANGED zonalVars
    /\ UNCHANGED downloadVars
    /\ UNCHANGED nameVars
    /\ UNCHANGED collectionVars
    /\ UNCHANGED discoveryVars

\* fillFile: img.setStatus("statGen",True); return True, and rectify returns True
RcMark ==
    /\ rc.pc = "fill"
    /\ rc.left = <<>>
    /\ status' = setStatusRow("legacy", status, rc.acq, "statGen", 1)
    /\ rc' = [rc EXCEPT !.pc = "done", !.ret = "True"]
    /\ UNCHANGED <<impl, kind, datasets, s3, tbl, pc, args, todo, cur, ingestRet, us, cycles, lastOp>>
    /\ UNCHANGED lutVars
    /\ UNCHANGED raceVars
    /\ UNCHANGED planVars
    /\ UNCHANGED purgeVars
    /\ UNCHANGED filterVars
    /\ UNCHANGED merraVars
    /\ UNCHANGED pairVars
    /\ UNCHANGED zonalVars
    /\ UNCHANGED downloadVars
    /\ UNCHANGED nameVars
    /\ UNCHANGED collectionVars
    /\ UNCHANGED discoveryVars

\* a later getMissingStats of the same acquisition
RcRescan ==
    /\ rc.pc \in {"done", "failed"}
    /\ status' = scanStatus(status, tbl, rc.acq)
    /\ rc' = [rc EXCEPT !.again = missingCombos(tbl, rc.acq), !.pc = "rescanned"]
    /\ UNCHANGED <<impl, kind, datasets, s3, tbl, pc, args, todo, cur, ingestRet, us, cycles, lastOp>>
    /\ UNCHANGED lutVars
    /\ UNCHANGED raceVars
    /\ UNCHANGED planVars
    /\ UNCHANGED purgeVars
    /\ UNCHANGED filterVars
    /\ UNCHANGED merraVars
    /\ UNCHANGED pairVars
    /\ UNCHANGED zonalVars
    /\ UNCHANGED downloadVars
    /\ UNCHANGED nameVars
    /\ UNCHANGED collectionVars
    /\ UNCHANGED discoveryVars

NextRect == RcGenerate \/ RcFill \/ RcMark \/ RcRescan

SpecRect == InitRect /\ [][NextRect]_vars

(***************************************************************************)
(* The guards of the two nested loops of Image.uploadStats over crop and   *)
(* admin lists that hold a Cropmonitor crop with Brazil overlap (maize),   *)
(* one without (springwheat), a Brazil crop and nomask.                    *)
(***************************************************************************)
crops_cropmonitor == {"maize", "springwheat"}

\* crops = crops_cropmonitor + crops_brazil + ["nomask"]
StatCrops == <<"maize", "springwheat", "2S-DFZSafraZ2013_2014", "nomask">>

\* admin_crops_matchup of legacy.py: gaul admins take the Cropmonitor crops and
\* nomask, brazil admins the Brazil crops, Cropmonitor minus springwheat, nomask
matchup ==
    [a \in {"gaul1", "BR_State"} |->
        IF a \in admins_gaul THEN crops_cropmonitor \cup {"nomask"}
        ELSE crops_brazil \cup (crops_cropmonitor \ {"springwheat"}) \cup {"nomask"}]

StatPairs == {<<StatCrops[i], admins[j]>> : i \in 1..Len(StatCrops), j \in 1..Len(admins)}

\* crop-major, admin-minor
PairOrder ==
    [n \in 1..(Len(StatCrops) * Len(admins)) |->
        <<StatCrops[((n - 1) \div Len(admins)) + 1], admins[((n - 1) % Len(admins)) + 1]>>]

\* getStatsTables: legacy.py keeps "admin in self.admins if crop in
\* admin_crops_matchup[admin]", __init__.py keeps every admin
statsTablesKeys(im) ==
    SelectSeq(PairOrder, LAMBDA k : im = "legacy" => k[1] \in matchup[k[2]])

\* the "continue" guards ahead of zonal_stats
runsPair(u, k) ==
    /\ ~(u.crop_level = "NOMASK" /\ k[1] # "nomask")
    /\ ~(u.crop_level = "BRAZIL" /\ k[1] \notin crops_brazil)
    /\ ~(u.crop_level = "CROPMONITOR" /\ k[1] \notin crops_cropmonitor)
    /\ ~(u.im = "legacy" /\ u.crop_specified # "none" /\ k[1] # u.crop_specified)
    /\ ~(u.im = "legacy" /\ k[1] \notin matchup[k[2]])
    /\ ~(u.admin_level = "BRAZIL" /\ k[2] \notin admins_brazil)
    /\ ~(u.admin_level = "GAUL" /\ k[2] \notin admins_gaul)
    /\ ~(u.im = "legacy" /\ u.admin_specified # "none" /\ k[2] # u.admin_specified)
    /\ ~(~u.override_brazil_limit /\ k[1] \in crops_brazil /\ k[2] \notin admins_brazil)

InitPairs ==
    /\ impl \in Impls
    /\ kind = "ancillary"
    /\ IdleCycle
    /\ IdleLut
    /\ tbl = [k \in Keys |-> NoTable]
    /\ run = [r \in Runners |-> NoRun]
    /\ dc = NoDc
    /\ mc = NoMc
    /\ fn = NoFn
    /\ dl = NoDl
    /\ zs = NoZs
    /\ mr = NoMr
    /\ rc = NoRc
    /\ plan = NoPlan
    /\ probe = NoProbe
    /\ pg = NoPg
    /\ fl = NoFl
    /\ \E cl \in {"ALL", "NOMASK", "BRAZIL", "CROPMONITOR"}, al \in {"ALL", "GAUL", "BRAZIL"},
          ov \in BOOLEAN,
          cs \in {"none"} \cup {StatCrops[i] : i \in 1..Len(StatCrops)},
          ad \in {"none", "gaul1", "BR_State"} :
        /\ impl = "init" => cs = "none" /\ ad = "none"
        /\ up = [NoUp EXCEPT !.im = impl, !.crop_level = cl, !.admin_level = al,
                             !.crop_specified = cs, !.admin_specified = ad,
                             !.override_brazil_limit = ov]

\* the argument check and getStatsTables
UpStart ==
    /\ up.pc = "idle"
    /\ up.im # "none"
    /\ IF \/ up.admin_specified # "none" /\ up.admin_level # "ALL"
          \/ up.crop_specified # "none" /\ up.crop_level # "ALL"
       THEN up' = [up EXCEPT !.pc = "BadInputError"]
       ELSE up' = [up EXCEPT !.pc = "loop", !.left = statsTablesKeys(up.im)]
    /\ UNCHANGED <<impl, kind>>
    /\ UNCHANGED cycleVars
    /\ UNCHANGED lutVars
    /\ UNCHANGED raceVars
    /\ UNCHANGED planVars
    /\ UNCHANGED purgeVars
    /\ UNCHANGED filterVars
    /\ UNCHANGED merraVars
    /\ UNCHANGED rectVars
    /\ UNCHANGED zonalVars
    /\ UNCHANGED downloadVars
    /\ UNCHANGED nameVars
    /\ UNCHANGED collectionVars
    /\ UNCHANGED discoveryVars

\* one turn of the inner loop: the guards, zonal_stats, and for a data frame
\* append_to_stats_table or create_stats_table
UpPair ==
    /\ up.pc = "loop"
    /\ up.left # <<>>
    /\ LET k == Head(up.left) IN
       IF ~runsPair(up, k)
       THEN up' = [up EXCEPT !.left = Tail(up.left)]
       ELSE \E out \in {"frame", "None", "RuntimeError"}, exists \in BOOLEAN :
              up' = [up EXCEPT !.left = Tail(up.left),
                               !.ran = @ \cup {k},
                               !.created = IF out = "frame" /\ ~exists THEN @ \cup {k} ELSE @,
                               !.wrote = IF out = "frame" THEN @ \cup {k} ELSE @]
    /\ UNCHANGED <<impl, kind>>
    /\ UNCHANGED cycleVars
    /\ UNCHANGED lutVars
    /\ UNCHANGED raceVars
    /\ UNCHANGED planVars
    /\ UNCHANGED purgeVars
    /\ UNCHANGED filterVars
    /\ UNCHANGED merraVars
    /\ UNCHANGED rectVars
    /\ UNCHANGED zonalVars
    /\ UNCHANGED downloadVars
    /\ UNCHANGED nameVars
    /\ UNCHANGED collectionVars
    /\ UNCHANGED discoveryVars

UpEnd ==
    /\ up.pc = "loop"
    /\ up.left = <<>>
    /\ up' = [up EXCEPT !.pc = "done"]
    /\ UNCHANGED <<impl, kind>>
    /\ UNCHANGED cycleVars
    /\ UNCHANGED lutVars
    /\ UNCHANGED raceVars
    /\ UNCHANGED planVars
    /\ UNCHANGED purgeVars
    /\ UNCHANGED filterVars
    /\ UNCHANGED merraVars
    /\ UNCHANGED rectVars
    /\ UNCHANGED zonalVars
    /\ UNCHANGED downloadVars
    /\ UNCHANGED nameVars
    /\ UNCHANGED collectionVars
    /\ UNCHANGED discoveryVars

NextPairs == UpStart \/ UpPair \/ UpEnd

SpecPairs == InitPairs /\ [][NextPairs]_vars

(***************************************************************************)
(* Zonal statistics of a raster of one row.  A pixel holds its admin code  *)
(* (0 is the nodata value), its crop mask value (1 = crop, 0 = no crop and *)
(* the nodata value of mask rasters) and its product value (0 is the       *)
(* nodata value).  The mask is "nomask" (no mask raster), "ones" (a raster *)
(* that is 1 on every pixel) or "crop" (the crop raster).  Means and       *)
(* percentages are kept as exact fractions <<numerator, denominator>>.     *)
(***************************************************************************)
RasterWidth == 3

\* one pixel outside every zone; in a zone, crop pixels with no value, 1 or 3
\* and a valued pixel off the crop
Pixels ==
    {p \in [admin : 0..2, crop : 0..1, v : {0, 1, 3}] :
        /\ p.admin = 0 => (p.crop = 1 /\ p.v = 1)
        /\ p.crop = 0 => p.v = 3}

RECURSIVE GCD(_, _)
GCD(a, b) == IF b = 0 THEN a ELSE GCD(b, a % b)

\* the fraction n/d in lowest terms
Q(n, d) == IF n = 0 THEN <<0, 1>> ELSE <<n \div GCD(n, d), d \div GCD(n, d)>>
QAdd(a, b) == Q(a[1] * b[2] + b[1] * a[2], a[2] * b[2])
QMul(a, b) == Q(a[1] * b[1], a[2] * b[2])
QDiv(a, b) == Q(a[1] * b[2], a[2] * b[1])

RECURSIVE SumOver(_, _)
SumOver(win, S) ==
    IF S = {} THEN 0
    ELSE LET i == CHOOSE x \in S : TRUE IN win[i].v + SumOver(win, S \ {i})

\* getWindows over a raster of height 1: <<hstart, hwin>>
RECURSIVE getWindows(_, _, _)
getWindows(hstart, width, blocksize) ==
    IF hstart >= width THEN <<>>
    ELSE <<(<<hstart, IF hstart + blocksize > width THEN width % blocksize ELSE blocksize>>)>>
         \o getWindows(hstart + blocksize, width, blocksize)

\* a windowed read
ReadWindow(raster, w) == SubSeq(raster, w[1] + 1, w[1] + w[2])

\* "if 'nomask' in mask_path: mask_path = None ... mask_data = np.full(shape, 1)"
maskZeros(mask, px) == IF mask = "nomask" THEN 0 ELSE IF mask = "ones" THEN 1 ELSE px.crop
mask_data(mask, px) == IF mask = "nomask" THEN 1 ELSE IF mask = "ones" THEN 1 ELSE px.crop

\* _mp_worker_ZS: the dictionary of one window
mp_worker_ZS(win, mask) ==
    LET arable(a) == {i \in 1..Len(win) : win[i].admin = a /\ mask_data(mask, win[i]) = 1}
        masked(a) == {i \in arable(a) : win[i].v # 0}
        uniqueadmins == {win[i].admin : i \in 1..Len(win)} \ {0}
    IN [a \in {x \in uniqueadmins : arable(x) # {}} |->
            [value |-> IF masked(a) # {} THEN Q(SumOver(win, masked(a)), Cardinality(masked(a)))
                       ELSE <<0, 1>>,
             arable_pixels |-> Cardinality(arable(a)),
             percent_arable |-> Q(Cardinality(masked(a)) * 100, Cardinality(arable(a)))]]

\* _update_ZS for one zone present in both dictionaries
updateZone(stored_info, this_info) ==
    LET arable_visible_stored == QDiv(QMul(<<stored_info.arable_pixels, 1>>, stored_info.percent_arable), <<100, 1>>)
        arable_visible_this == QDiv(QMul(<<this_info.arable_pixels, 1>>, this_info.percent_arable), <<100, 1>>)
        total == QAdd(arable_visible_stored, arable_visible_this)
        stored_weight == IF total[1] = 0 THEN <<0, 1>> ELSE QDiv(arable_visible_stored, total)
        this_weight == IF total[1] = 0 THEN <<0, 1>> ELSE QDiv(arable_visible_this, total)
        arable_pixels == stored_info.arable_pixels + this_info.arable_pixels
    IN [value |-> QAdd(QMul(stored_info.value, stored_weight), QMul(this_info.value, this_weight)),
        arable_pixels |-> arable_pixels,
        percent_arable |-> QMul(QDiv(total, <<arable_pixels, 1>>), <<100, 1>>)]

\* _update_ZS
update_ZS(stored_dict, this_dict) ==
    [k \in DOMAIN stored_dict \cup DOMAIN this_dict |->
        IF k \notin DOMAIN this_dict THEN stored_dict[k]
        ELSE IF k \notin DOMAIN stored_dict THEN this_dict[k]
        ELSE updateZone(stored_dict[k], this_dict[k])]

\* "for window_output in p.map(...): _update_ZS(final_output, window_output)"
\* over the outputs lo..hi
RECURSIVE foldZS(_, _, _)
foldZS(outs, lo, hi) ==
    IF hi < lo THEN <<>> ELSE update_ZS(foldZS(outs, lo, hi - 1), outs[hi])

\* zonalStats: "window = getWindows(...)" and then "for w in windows": the name
\* windows is bound nowhere, so the call ends in NameError before any window
\* is read
zonalStats(raster, mask, blocksize) == [is |-> "NameError", dict |-> <<>>]

\* round(float(values),2) in hundredths; means of fewer than eight pixels
\* never fall on a tie
round2(q) == (2 * 100 * q[1] + q[2]) \div (2 * q[2])

\* cmband of one block in zonal_stats of legacy.py.  Image, gaul branch:
\* "cmbandhandle.ReadAsArray(xOffset, yOffset, ...)" names xOffset, which is
\* bound only in the Brazil branch, and the bare except gives all ones.
\* ModisImage reads the block of the mask; without a mask the handle is None
\* and the except gives all ones.
cmband(kd, mask, px) ==
    IF kd = "ancillary" THEN 1
    ELSE IF mask = "nomask" THEN 1
    ELSE IF mask = "ones" THEN 1 ELSE px.crop

\* the blocks of the loop "for j in range(0, cols, xBSize)"
RECURSIVE blocks(_, _, _)
blocks(j, cols, xBSize) ==
    IF j >= cols THEN <<>>
    ELSE <<(<<j, IF j + xBSize < cols THEN xBSize ELSE cols - j>>)>> \o blocks(j + xBSize, cols, xBSize)

\* one block folded into flatarrays; cmnodata is 0
flatBlock(flat, kd, mask, win) ==
    LET arable(a) == {i \in 1..Len(win) : win[i].admin = a /\ cmband(kd, mask, win[i]) # 0}
        masked(a) == {i \in arable(a) : win[i].v # 0}
        seen == {a \in ({win[i].admin : i \in 1..Len(win)} \ {0}) : arable(a) # {}}
    IN [a \in DOMAIN flat \cup seen |->
          IF a \notin seen THEN flat[a]
          ELSE IF a \notin DOMAIN flat
               THEN [values |-> IF masked(a) # {} THEN Q(SumOver(win, masked(a)), Cardinality(masked(a)))
                                ELSE <<0, 1>>,
                     count |-> Cardinality(masked(a)),
                     countarable |-> Cardinality(arable(a))]
               ELSE LET updatedcount == flat[a].count + Cardinality(masked(a)) IN
                    [values |-> IF updatedcount > 0
                                THEN QDiv(QAdd(QMul(flat[a].values, <<flat[a].count, 1>>),
                                               <<SumOver(win, masked(a)), 1>>),
                                          <<updatedcount, 1>>)
                                ELSE <<0, 1>>,
                     count |-> IF updatedcount > 0 THEN updatedcount ELSE 0,
                     countarable |-> flat[a].countarable + Cardinality(arable(a))]]

RECURSIVE flatarrays(_, _, _, _, _)
flatarrays(kd, mask, raster, bl, n) ==
    IF n = 0 THEN <<>>
    ELSE flatBlock(flatarrays(kd, mask, raster, bl, n - 1), kd, mask, ReadWindow(raster, bl[n]))

\* zonal_stats of legacy.py: the data frame as a set of rows, None when no zone
\* has a row.  For a BR_ admin file Image reads the window
\* (xmax, ymax, xmin-xmax, ymin-ymax) of getValidWindow, whose sizes are never
\* positive, and the read raises; ModisImage has no such branch.
zonal_stats(kd, admin_path, raster, mask, xBSize) ==
    IF kd = "ancillary" /\ admin_path \in admins_brazil THEN [is |-> "raise", rows |-> {}]
    ELSE LET bl == blocks(0, Len(raster), xBSize)
             flat == flatarrays(kd, mask, raster, bl, Len(bl))
             stats == {[admin |-> a,
                        value |-> round2(flat[a].values),
                        count |-> flat[a].count,
                        arable |-> flat[a].countarable,
                        pct |-> (flat[a].count * 100) \div flat[a].countarable] : a \in DOMAIN flat}
         IN IF stats = {} THEN [is |-> "None", rows |-> {}] ELSE [is |-> "DataFrame", rows |-> stats]

InitZonal ==
    /\ impl = "legacy"
    /\ kind \in Kinds
    /\ IdleCycle
    /\ IdleLut
    /\ tbl = [k \in Keys |-> NoTable]
    /\ run = [r \in Runners |-> NoRun]
    /\ dc = NoDc
    /\ mc = NoMc
    /\ fn = NoFn
    /\ dl = NoDl
    /\ mr = NoMr
    /\ rc = NoRc
    /\ up = NoUp
    /\ plan = NoPlan
    /\ probe = NoProbe
    /\ pg = NoPg
    /\ fl = NoFl
    /\ \E r \in [1..RasterWidth -> Pixels], m \in {"nomask", "ones", "crop"}, b \in 1..2,
          ap \in {"gaul1", "BR_State"} :
        /\ kind = "ndvi" => ap = "gaul1"
        /\ zs = [NoZs EXCEPT !.raster = r, !.mask = m, !.blocksize = b, !.admin_path = ap]

\* _mp_worker_ZS on the next window of getWindows
ZsWorker ==
    /\ Len(zs.outs) < Len(getWindows(0, Len(zs.raster), zs.blocksize))
    /\ LET w == getWindows(0, Len(zs.raster), zs.blocksize)[Len(zs.outs) + 1] IN
       zs' = [zs EXCEPT !.outs = Append(@, mp_worker_ZS(ReadWindow(zs.raster, w), zs.mask))]
    /\ UNCHANGED <<impl, kind>>
    /\ UNCHANGED cycleVars
    /\ UNCHANGED lutVars
    /\ UNCHANGED raceVars
    /\ UNCHANGED planVars
    /\ UNCHANGED purgeVars
    /\ UNCHANGED filterVars
    /\ UNCHANGED merraVars
    /\ UNCHANGED rectVars
    /\ UNCHANGED pairVars
    /\ UNCHANGED downloadVars
    /\ UNCHANGED nameVars
    /\ UNCHANGED collectionVars
    /\ UNCHANGED discoveryVars

\* _update_ZS(final_output, window_output) with the next window output
ZsUpdate ==
    /\ zs.folded < Len(zs.outs)
    /\ zs' = [zs EXCEPT !.final = update_ZS(@, zs.outs[zs.folded + 1]), !.folded = @ + 1]
    /\ UNCHANGED <<impl, kind>>
    /\ UNCHANGED cycleVars
    /\ UNCHANGED lutVars
    /\ UNCHANGED raceVars
    /\ UNCHANGED planVars
    /\ UNCHANGED purgeVars
    /\ UNCHANGED filterVars
    /\ UNCHANGED merraVars
    /\ UNCHANGED rectVars
    /\ UNCHANGED pairVars
    /\ UNCHANGED downloadVars
    /\ UNCHANGED nameVars
    /\ UNCHANGED collectionVars
    /\ UNCHANGED discoveryVars

\* zonalStats(product_path, mask_path, admin_path)
ZsZonalStats ==
    /\ zs.raster # <<>>
    /\ zs.ret.is = "none"
    /\ zs' = [zs EXCEPT !.ret = zonalStats(zs.raster, zs.mask, zs.blocksize)]
    /\ UNCHANGED <<impl, kind>>
    /\ UNCHANGED cycleVars
    /\ UNCHANGED lutVars
    /\ UNCHANGED raceVars
    /\ UNCHANGED planVars
    /\ UNCHANGED purgeVars
    /\ UNCHANGED filterVars
    /\ UNCHANGED merraVars
    /\ UNCHANGED rectVars
    /\ UNCHANGED pairVars
    /\ UNCHANGED downloadVars
    /\ UNCHANGED nameVars
    /\ UNCHANGED collectionVars
    /\ UNCHANGED discoveryVars

\* zonal_stats(self.path, self.cropMaskFiles[crop], self.adminFiles[admin])
ZsZonal_stats ==
    /\ zs.raster # <<>>
    /\ zs.frame.is = "none"
    /\ zs' = [zs EXCEPT !.frame = zonal_stats(kind, zs.admin_path, zs.raster, zs.mask, zs.blocksize)]
    /\ UNCHANGED <<impl, kind>>
    /\ UNCHANGED cycleVars
    /\ UNCHANGED lutVars
    /\ UNCHANGED raceVars
    /\ UNCHANGED planVars
    /\ UNCHANGED purgeVars
    /\ UNCHANGED filterVars
    /\ UNCHANGED merraVars
    /\ UNCHANGED rectVars
    /\ UNCHANGED pairVars
    /\ UNCHANGED downloadVars
    /\ UNCHANGED nameVars
    /\ UNCHANGED collectionVars
    /\ UNCHANGED discoveryVars

NextZonal == ZsWorker \/ ZsUpdate \/ ZsZonalStats \/ ZsZonal_stats

SpecZonal == InitZonal /\ [][NextZonal]_vars

(***************************************************************************)
(* The Content-Length check of the download functions of pullFromSource,   *)
(* in __init__.py, legacy.py and downloads.py: the body is streamed to a   *)
(* temporary file in the output directory, its size is compared with the   *)
(* announced size, and the file is converted to the final raster.          *)
(***************************************************************************)
MaxSize == 2

Modules == {"__init__", "legacy", "downloads"}

Downloads == {"merra-2", "chirps", "chirps-prelim", "swi"}

\* whether the branch "if observedSize != expectedSize" holds an os.remove of
\* the temporary file ahead of "return ()"
removesPartial(module, product) ==
    CASE product = "merra-2" -> FALSE
      [] product = "chirps" -> module = "__init__"
      [] product = "chirps-prelim" -> TRUE
      [] product = "swi" -> TRUE

InitDownload ==
    /\ impl = "init"
    /\ kind = "ancillary"
    /\ IdleCycle
    /\ IdleLut
    /\ tbl = [k \in Keys |-> NoTable]
    /\ run = [r \in Runners |-> NoRun]
    /\ dc = NoDc
    /\ mc = NoMc
    /\ fn = NoFn
    /\ mr = NoMr
    /\ rc = NoRc
    /\ up = NoUp
    /\ zs = NoZs
    /\ plan = NoPlan
    /\ probe = NoProbe
    /\ pg = NoPg
    /\ fl = NoFl
    /\ \E m \in Modules, p \in Downloads, o \in 0..MaxSize, e \in 1..MaxSize :
        dl = [NoDl EXCEPT !.module = m, !.product = p, !.observed = o, !.expected = e]

\* "with open(..., 'wb') as fd: for chunk in r.iter_content(...): fd.write(chunk)"
DlWrite ==
    /\ dl.pc = "idle"
    /\ dl.module # "none"
    /\ dl' = [dl EXCEPT !.pc = "checksum", !.files = {"temporary"}]
    /\ UNCHANGED <<impl, kind>>
    /\ UNCHANGED cycleVars
    /\ UNCHANGED lutVars
    /\ UNCHANGED raceVars
    /\ UNCHANGED planVars
    /\ UNCHANGED purgeVars
    /\ UNCHANGED filterVars
    /\ UNCHANGED merraVars
    /\ UNCHANGED rectVars
    /\ UNCHANGED pairVars
    /\ UNCHANGED zonalVars
    /\ UNCHANGED nameVars
    /\ UNCHANGED collectionVars
    /\ UNCHANGED discoveryVars

\* "if observedSize != expectedSize: log.warning(w) ... return ()"
DlChecksum ==
    /\ dl.pc = "checksum"
    /\ IF dl.observed # dl.expected
       THEN dl' = [dl EXCEPT !.pc = "returned", !.ret = "()",
                             !.files = IF removesPartial(dl.module, dl.product) THEN {} ELSE @]
       ELSE dl' = [dl EXCEPT !.pc = "convert"]
    /\ UNCHANGED <<impl, kind>>
    /\ UNCHANGED cycleVars
    /\ UNCHANGED lutVars
    /\ UNCHANGED raceVars
    /\ UNCHANGED planVars
    /\ UNCHANGED purgeVars
    /\ UNCHANGED filterVars
    /\ UNCHANGED merraVars
    /\ UNCHANGED rectVars
    /\ UNCHANGED pairVars
    /\ UNCHANGED zonalVars
    /\ UNCHANGED nameVars
    /\ UNCHANGED collectionVars
    /\ UNCHANGED discoveryVars

\* the conversion to the final raster; the temporary file is removed
DlConvert ==
    /\ dl.pc = "convert"
    /\ dl' = [dl EXCEPT !.pc = "returned", !.ret = "paths", !.files = {"raster"}]
    /\ UNCHANGED <<impl, kind>>
    /\ UNCHANGED cycleVars
    /\ UNCHANGED lutVars
    /\ UNCHANGED raceVars
    /\ UNCHANGED planVars
    /\ UNCHANGED purgeVars
    /\ UNCHANGED filterVars
    /\ UNCHANGED merraVars
    /\ UNCHANGED rectVars
    /\ UNCHANGED pairVars
    /\ UNCHANGED zonalVars
    /\ UNCHANGED nameVars
    /\ UNCHANGED collectionVars
    /\ UNCHANGED discoveryVars

NextDownload == DlWrite \/ DlChecksum \/ DlConvert

SpecDownload == InitDownload /\ [][NextDownload]_vars

(***************************************************************************)
(* Canonical file names.  A date text "%Y-%m-%d" is the tuple <<year,      *)
(* month, day>>; a file name is the sequence of the parts that split(".")  *)
(* gives, in which the text "%Y.%j" takes two parts, year and day of year. *)
(***************************************************************************)
ancillary_products == {"chirps", "chirps-prelim", "swi", "merra-2"}

\* the last date of the calendar
CalendarDays == MonthStart(Len(Calendar)) + Calendar[Len(Calendar)].len - 1

\* strftime("%Y-%m-%d") and strptime(text, "%Y-%m-%d"); 0 stands for ValueError
strftimeYmd(n) == <<YearOf(n), Calendar[MonthOf(n)].m, DayOfMonth(n)>>
strptimeYmd(t) ==
    LET months == {i \in 1..Len(Calendar) : Calendar[i].y = t[1] /\ Calendar[i].m = t[2]} IN
    IF months = {} THEN 0
    ELSE LET i == CHOOSE x \in months : TRUE IN
         IF t[3] >= 1 /\ t[3] <= Calendar[i].len THEN MonthStart(i) + t[3] - 1 ELSE 0

\* strftime("%Y.%j") and strptime(text, "%Y.%j")
strftimeYj(n) == <<YearOf(n), DayOfYear(n)>>
strptimeYj(t) ==
    LET months == {i \in 1..Len(Calendar) : /\ Calendar[i].y = t[1]
                                            /\ Calendar[i].doy0 <= t[2]
                                            /\ t[2] < Calendar[i].doy0 + Calendar[i].len} IN
    IF months = {} THEN 0
    ELSE LET i == CHOOSE x \in months : TRUE IN MonthStart(i) + t[2] - Calendar[i].doy0

\* {"Minimum":"min","Maximum":"max","Mean":"mean"}.get(collection,collection)
subCollection(collection) ==
    CASE collection = "Minimum" -> "min"
      [] collection = "Maximum" -> "max"
      [] collection = "Mean" -> "mean"
      [] OTHER -> collection

\* a parse of the collection that knows no sub-collection
merraDefault(part) == "0"

\* merraCollections.get(self.path.split(".")[-2],'0')
merraCollections(part) ==
    CASE part = "min" -> "Minimum"
      [] part = "mean" -> "Mean"
      [] part = "max" -> "Maximum"
      [] OTHER -> "0"

\* the rows of the datasets table: product, date, collection as Image.ingest
\* and ModisImage.ingest write them
Acquisitions ==
    {a \in [product : Products, date : {strftimeYmd(n) : n \in 1..CalendarDays},
            collection : {"0", "006", "Minimum", "Mean", "Maximum"}] :
        a.collection \in (CASE a.product = "merra-2" -> {"Minimum", "Mean", "Maximum"}
                            [] a.product \in ancillary_products \ {"merra-2"} -> {"0"}
                            [] OTHER -> {"006"})}

\* getMissingStats: "format virtual file name"
virtual_path(a) ==
    IF a.product = "merra-2" THEN <<a.product, a.date, subCollection(a.collection), "tif">>
    ELSE IF a.product \in ancillary_products THEN <<a.product, a.date, "tif">>
    ELSE <<a.product>> \o strftimeYj(strptimeYmd(a.date)) \o <<"tif">>

\* getImageType(path)(path, virtual=True): Image.__init__ for the ancillary
\* products, ModisImage.__init__ for the others
imageOf(name) ==
    IF name[1] \in ancillary_products
    THEN IF strptimeYmd(name[2]) = 0 THEN [is |-> "BadInputError"]
         ELSE [is |-> "image", product |-> name[1], date |-> name[2],
               collection |-> IF name[1] = "merra-2" THEN merraCollections(name[Len(name) - 1]) ELSE "0",
               year |-> name[2][1], doy |-> DayOfYear(strptimeYmd(name[2]))]
    ELSE IF strptimeYj(<<name[2], name[3]>>) = 0 THEN [is |-> "ValueError"]
         ELSE [is |-> "image", product |-> name[1],
               date |-> strftimeYmd(strptimeYj(<<name[2], name[3]>>)),
               collection |-> "006", year |-> name[2], doy |-> name[3]]

\* util.getMetadata; the product of a merra-2 file is "merra-2-" + name_parts[2],
\* written here as the pair of the two
getMetadata(name) ==
    IF name[1] \in ancillary_products
    THEN IF strptimeYmd(name[2]) = 0 THEN [is |-> "ValueError"]
         ELSE [is |-> "metadata",
               product |-> IF name[1] = "merra-2" THEN <<"merra-2", name[3]>> ELSE <<name[1]>>,
               category |-> "ancillary",
               date |-> strftimeYmd(strptimeYmd(name[2])),
               year |-> YearOf(strptimeYmd(name[2])), doy |-> DayOfYear(strptimeYmd(name[2]))]
    ELSE IF strptimeYj(<<name[2], name[3]>>) = 0 THEN [is |-> "ValueError"]
         ELSE [is |-> "metadata", product |-> <<name[1]>>, category |-> "NDVI",
               date |-> strftimeYmd(strptimeYj(<<name[2], name[3]>>)),
               year |-> name[2], doy |-> name[3]]

InitNames ==
    /\ impl = "legacy"
    /\ kind = "ancillary"
    /\ IdleCycle
    /\ IdleLut
    /\ tbl = [k \in Keys |-> NoTable]
    /\ run = [r \in Runners |-> NoRun]
    /\ dc = NoDc
    /\ mc = NoMc
    /\ mr = NoMr
    /\ rc = NoRc
    /\ up = NoUp
    /\ zs = NoZs
    /\ dl = NoDl
    /\ plan = NoPlan
    /\ probe = NoProbe
    /\ pg = NoPg
    /\ fl = NoFl
    /\ \E a \in Acquisitions : fn = [NoFn EXCEPT !.acq = a]

\* the virtual file name of the acquisition
FnFormat ==
    /\ fn.acq.product # "none"
    /\ fn.name = <<>>
    /\ fn' = [fn EXCEPT !.name = virtual_path(fn.acq)]
    /\ UNCHANGED <<impl, kind>>
    /\ UNCHANGED cycleVars
    /\ UNCHANGED lutVars
    /\ UNCHANGED raceVars
    /\ UNCHANGED planVars
    /\ UNCHANGED purgeVars
    /\ UNCHANGED filterVars
    /\ UNCHANGED merraVars
    /\ UNCHANGED rectVars
    /\ UNCHANGED pairVars
    /\ UNCHANGED zonalVars
    /\ UNCHANGED downloadVars
    /\ UNCHANGED collectionVars
    /\ UNCHANGED discoveryVars

\* the image object of the name
FnImage ==
    /\ fn.name # <<>>
    /\ fn.image.is = "none"
    /\ fn' = [fn EXCEPT !.image = imageOf(fn.name)]
    /\ UNCHANGED <<impl, kind>>
    /\ UNCHANGED cycleVars
    /\ UNCHANGED lutVars
    /\ UNCHANGED raceVars
    /\ UNCHANGED planVars
    /\ UNCHANGED purgeVars
    /\ UNCHANGED filterVars
    /\ UNCHANGED merraVars
    /\ UNCHANGED rectVars
    /\ UNCHANGED pairVars
    /\ UNCHANGED zonalVars
    /\ UNCHANGED downloadVars
    /\ UNCHANGED collectionVars
    /\ UNCHANGED discoveryVars

\* getMetadata of the name
FnMetadata ==
    /\ fn.name # <<>>
    /\ fn.meta.is = "none"
    /\ fn' = [fn EXCEPT !.meta = getMetadata(fn.name)]
    /\ UNCHANGED <<impl, kind>>
    /\ UNCHANGED cycleVars
    /\ UNCHANGED lutVars
    /\ UNCHANGED raceVars
    /\ UNCHANGED planVars
    /\ UNCHANGED purgeVars
    /\ UNCHANGED filterVars
    /\ UNCHANGED merraVars
    /\ UNCHANGED rectVars
    /\ UNCHANGED pairVars
    /\ UNCHANGED zonalVars
    /\ UNCHANGED downloadVars
    /\ UNCHANGED collectionVars
    /\ UNCHANGED discoveryVars

NextNames == FnFormat \/ FnImage \/ FnMetadata

SpecNames == InitNames /\ [][NextNames]_vars

(***************************************************************************)
(* updateData at a merra-2 date, acquisition 1: pullFromSource gave the    *)
(* three files of the date, and "for p in paths" ingests each, generates   *)
(* its statistics and sets the flags of the row of (merra-2, date), with   *)
(* the default arguments (neither --stats nor --ingest, levels "ALL").     *)
(***************************************************************************)
merraFiles == {"min", "max", "mean"}

\* the orders in which a tuple of the three files may be walked
merraPaths == {p \in [1..3 -> merraFiles] : {p[i] : i \in 1..3} = merraFiles}

InitCollections ==
    /\ impl \in Impls
    /\ kind = "ancillary"
    /\ datasets = {}
    /\ s3 = {}
    /\ pc = "idle"
    /\ args = NoArgs
    /\ todo = <<>>
    /\ cur = 0
    /\ ingestRet = FALSE
    /\ us = NoUs
    /\ cycles = 0
    /\ lastOp = Op("init", 0)
    /\ IdleLut
    /\ tbl = [k \in Keys |-> NoTable]
    /\ run = [r \in Runners |-> NoRun]
    /\ dc = NoDc
    /\ mr = NoMr
    /\ rc = NoRc
    /\ up = NoUp
    /\ zs = NoZs
    /\ dl = NoDl
    /\ fn = NoFn
    /\ plan = NoPlan
    /\ probe = NoProbe
    /\ pg = NoPg
    /\ fl = NoFl
    /\ \E p \in merraPaths : mc = [NoMc EXCEPT !.paths = p, !.pc = "ingest"]
    /\ \E r \in {Row(0, Null, 0), Row(0, 0, 0)} :
        status = [a \in Acqs |-> IF a = 1 THEN r ELSE NoRow]

\* "image.ingest(); image.setStatus('processed',True)" for the next file; an
\* exception of ingest leaves the loop for "except: log.error('(FAILED)')"
McIngest ==
    /\ mc.pc = "ingest"
    /\ mc.paths # <<>>
    /\ \E out \in {"ok", "raise"} :
        IF out = "ok"
        THEN /\ mc' = [mc EXCEPT !.pc = "stats", !.published = @ \cup {Head(mc.paths)}]
             /\ status' = setStatusRow(impl, status, 1, "processed", 1)
        ELSE /\ mc' = [mc EXCEPT !.pc = "FAILED", !.failed = Head(mc.paths)]
             /\ UNCHANGED status
    /\ UNCHANGED <<impl, kind, datasets, s3, tbl, pc, args, todo, cur, ingestRet, us, cycles, lastOp>>
    /\ UNCHANGED lutVars
    /\ UNCHANGED raceVars
    /\ UNCHANGED planVars
    /\ UNCHANGED purgeVars
    /\ UNCHANGED filterVars
    /\ UNCHANGED merraVars
    /\ UNCHANGED rectVars
    /\ UNCHANGED pairVars
    /\ UNCHANGED zonalVars
    /\ UNCHANGED downloadVars
    /\ UNCHANGED nameVars
    /\ UNCHANGED discoveryVars

\* "image.uploadStats(...); image.setStatus('statGen',True)" for the file
McStats ==
    /\ mc.pc = "stats"
    /\ \E out \in {"ok", "raise"} :
        IF out = "ok"
        THEN /\ mc' = [mc EXCEPT !.pc = IF Len(mc.paths) = 1 THEN "done" ELSE "ingest",
                                 !.stats = @ \cup {Head(mc.paths)},
                                 !.paths = Tail(@)]
             /\ status' = setStatusRow(impl, statGenMark(status, 1), 1, "statGen", 1)
        ELSE /\ mc' = [mc EXCEPT !.pc = "FAILED", !.failed = Head(mc.paths)]
             /\ UNCHANGED status
    /\ UNCHANGED <<impl, kind, datasets, s3, tbl, pc, args, todo, cur, ingestRet, us, cycles, lastOp>>
    /\ UNCHANGED lutVars
    /\ UNCHANGED raceVars
    /\ UNCHANGED planVars
    /\ UNCHANGED purgeVars
    /\ UNCHANGED filterVars
    /\ UNCHANGED merraVars
    /\ UNCHANGED rectVars
    /\ UNCHANGED pairVars
    /\ UNCHANGED zonalVars
    /\ UNCHANGED downloadVars
    /\ UNCHANGED nameVars
    /\ UNCHANGED discoveryVars

\* ToDoList.refresh of the next cycle: the re-derivation and getDbMissing
McRefresh ==
    /\ mc.pc \in {"done", "FAILED"}
    /\ status' = refreshDerive(impl, status)
    /\ mc' = [mc EXCEPT !.pc = "refreshed", !.planned = getDbMissing(refreshDerive(impl, status))]
    /\ UNCHANGED <<impl, kind, datasets, s3, tbl, pc, args, todo, cur, ingestRet, us, cycles, lastOp>>
    /\ UNCHANGED lutVars
    /\ UNCHANGED raceVars
    /\ UNCHANGED planVars
    /\ UNCHANGED purgeVars
    /\ UNCHANGED filterVars
    /\ UNCHANGED merraVars
    /\ UNCHANGED rectVars
    /\ UNCHANGED pairVars
    /\ UNCHANGED zonalVars
    /\ UNCHANGED downloadVars
    /\ UNCHANGED nameVars
    /\ UNCHANGED discoveryVars

NextCollections == McIngest \/ McStats \/ McRefresh

SpecCollections == InitCollections /\ [][NextCollections]_vars

(***************************************************************************)
(* Overlapping runs of ToDoList.refresh on one product.  getChronoMerra2   *)
(* reads MAX(date) once and then inserts a row for every later date up to  *)
(* today, each INSERT in a transaction of its own.  product_status is a    *)
(* count of rows per date; whether the table has a unique key on           *)
(* (product, date) is not in the repository, so both schemas are started.  *)
(***************************************************************************)
MaxToday == 4

MaxCrashes == 1

\* "SELECT MAX(date) FROM product_status WHERE product=.."
maxDate(rows) == CHOOSE d \in DOMAIN rows : rows[d] > 0 /\ \A e \in DOMAIN rows : rows[e] > 0 => e <= d

InitDiscovery ==
    /\ impl \in Impls
    /\ kind = "ancillary"
    /\ IdleCycle
    /\ IdleLut
    /\ tbl = [k \in Keys |-> NoTable]
    /\ run = [r \in Runners |-> NoRun]
    /\ mr = NoMr
    /\ rc = NoRc
    /\ up = NoUp
    /\ zs = NoZs
    /\ dl = NoDl
    /\ fn = NoFn
    /\ mc = NoMc
    /\ plan = NoPlan
    /\ probe = NoProbe
    /\ pg = NoPg
    /\ fl = NoFl
    /\ \E u \in BOOLEAN, l \in 1..(MaxToday - 1) :
        dc = [NoDc EXCEPT !.unique = u, !.today = MaxToday,
                          !.rows = [d \in 1..MaxToday |-> IF d <= l THEN 1 ELSE 0]]

\* latest = getLatestDate('merra-2')
DcLatest(r) ==
    /\ dc.today > 0
    /\ dc.runs[r].pc = "idle"
    /\ dc' = [dc EXCEPT !.runs[r].pc = "loop", !.runs[r].latest = maxDate(dc.rows)]
    /\ UNCHANGED <<impl, kind>>
    /\ UNCHANGED cycleVars
    /\ UNCHANGED lutVars
    /\ UNCHANGED raceVars
    /\ UNCHANGED planVars
    /\ UNCHANGED purgeVars
    /\ UNCHANGED filterVars
    /\ UNCHANGED merraVars
    /\ UNCHANGED rectVars
    /\ UNCHANGED pairVars
    /\ UNCHANGED zonalVars
    /\ UNCHANGED downloadVars
    /\ UNCHANGED nameVars
    /\ UNCHANGED collectionVars

\* one turn of "while latest < today": latest + 1 and updateDatabase, whose
\* INSERT a unique key refuses with IntegrityError, which nothing catches
DcInsert(r) ==
    /\ dc.runs[r].pc = "loop"
    /\ dc.runs[r].latest < dc.today
    /\ LET d == dc.runs[r].latest + 1 IN
       IF dc.unique /\ dc.rows[d] > 0
       THEN dc' = [dc EXCEPT !.runs[r].pc = "IntegrityError", !.runs[r].latest = d]
       ELSE dc' = [dc EXCEPT !.runs[r].latest = d, !.rows[d] = @ + 1]
    /\ UNCHANGED <<impl, kind>>
    /\ UNCHANGED cycleVars
    /\ UNCHANGED lutVars
    /\ UNCHANGED raceVars
    /\ UNCHANGED planVars
    /\ UNCHANGED purgeVars
    /\ UNCHANGED filterVars
    /\ UNCHANGED merraVars
    /\ UNCHANGED rectVars
    /\ UNCHANGED pairVars
    /\ UNCHANGED zonalVars
    /\ UNCHANGED downloadVars
    /\ UNCHANGED nameVars
    /\ UNCHANGED collectionVars

\* the loop is left: the run completes
DcEnd(r) ==
    /\ dc.runs[r].pc = "loop"
    /\ dc.runs[r].latest >= dc.today
    /\ dc' = [dc EXCEPT !.runs[r].pc = "done"]
    /\ UNCHANGED <<impl, kind>>
    /\ UNCHANGED cycleVars
    /\ UNCHANGED lutVars
    /\ UNCHANGED raceVars
    /\ UNCHANGED planVars
    /\ UNCHANGED purgeVars
    /\ UNCHANGED filterVars
    /\ UNCHANGED merraVars
    /\ UNCHANGED rectVars
    /\ UNCHANGED pairVars
    /\ UNCHANGED zonalVars
    /\ UNCHANGED downloadVars
    /\ UNCHANGED nameVars
    /\ UNCHANGED collectionVars

\* the process is killed between two inserts and refresh is run again
DcCrash(r) ==
    /\ dc.runs[r].pc = "loop"
    /\ dc.runs[r].crashes < MaxCrashes
    /\ dc' = [dc EXCEPT !.runs[r].pc = "idle", !.runs[r].latest = 0, !.runs[r].crashes = @ + 1]
    /\ UNCHANGED <<impl, kind>>
    /\ UNCHANGED cycleVars
    /\ UNCHANGED lutVars
    /\ UNCHANGED raceVars
    /\ UNCHANGED planVars
    /\ UNCHANGED purgeVars
    /\ UNCHANGED filterVars
    /\ UNCHANGED merraVars
    /\ UNCHANGED rectVars
    /\ UNCHANGED pairVars
    /\ UNCHANGED zonalVars
    /\ UNCHANGED downloadVars
    /\ UNCHANGED nameVars
    /\ UNCHANGED collectionVars

NextDiscovery ==
    \E r \in {"r1", "r2"} : DcLatest(r) \/ DcInsert(r) \/ DcEnd(r) \/ DcCrash(r)

SpecDiscovery == InitDiscovery /\ [][NextDiscovery]_vars

(***************************************************************************)
(* Properties of the catalog and the update cycle.                         *)
(***************************************************************************)
RowConsistent(r) == (r.completed = 1) <=> (r.processed = 1 /\ r.statGen = 1)

\* C1: every product_status row satisfies completed = (processed AND statGen)
\* in every catalog state that can be read, the states right after ingest or
\* uploadStats wrote processed or statGen included.
C1_CompletedIsDerived ==
    \A a \in Acqs : status[a].exists => RowConsistent(status[a])

\* C2: when setStatus has returned, the row it wrote holds the flag together
\* with the completed value re-derived from it (flag and completed are written
\* by the same transaction, so no reader sees the new flag with a stale
\* completed).
C2_SetStatusDerives ==
    (lastOp.op = "setStatus" /\ status[lastOp.acq].exists)
        => RowConsistent(status[lastOp.acq])

\* C3: no reachable catalog state has statGen = true while processed = false.
C3_ProcessedBeforeStatGen ==
    \A a \in Acqs :
        (status[a].exists /\ status[a].statGen = 1) => status[a].processed = 1

\* the calls of c and d for one key have ended, and neither found a row with
\* its first SELECT
Raced(c, d) ==
    /\ c # d
    /\ gs[c].pc \in {"done", "raised"} /\ gs[d].pc \in {"done", "raised"}
    /\ gs[c].key = gs[d].key
    /\ gs[c].miss /\ gs[d].miss

\* C4: two callers that resolve the same key at the same time, no look-up row
\* existing yet, both obtain the same stats id, and the look-up holds exactly
\* one row for the key.
C4_RaceConverges ==
    \A c, d \in Callers :
        Raced(c, d)
            => /\ gs[c].pc = "done" /\ gs[d].pc = "done"
               /\ gs[c].ret = gs[d].ret
               /\ Cardinality(statQuery(lut, gs[c].key)) = 1

\* the acquisition's columns are present and populated for every region of the
\* zonal result in the table of key k
Populated(k, a) ==
    /\ tbl[k].exists
    /\ a \in tbl[k].cols
    /\ \A r \in zonalRegions(k) : r \in tbl[k].rows /\ <<r, a>> \in tbl[k].vals

\* C5: whenever statGen is true for an acquisition, every (region, mask) pair
\* permitted by the matchup policy has the acquisition's columns present and
\* populated in its stats table.
C5_StatGenMeansAllPairs ==
    \A a \in Acqs :
        (status[a].exists /\ status[a].statGen = 1)
            => \A k \in Permitted : Populated(k, a)

\* C6: after append_to_stats_table has succeeded against an existing table,
\* every region id of the result has a row, and the row holds the
\* acquisition's values.
C6_AppendCoversResult ==
    lastOp.op = "append"
        => \A r \in lastOp.res :
               /\ r \in tbl[lastOp.key].rows
               /\ <<r, lastOp.acq>> \in tbl[lastOp.key].vals

\* C7: after every ingest call, failed or not, objects in S3 and catalog
\* records are in one-to-one correspondence: an object has a processed = true
\* row, a processed = true row and a datasets record have their object.
C7_ObjectsMatchRecords ==
    lastOp.op = "ingest"
        => \A a \in Acqs :
               /\ a \in s3 => (status[a].exists /\ status[a].processed = 1)
               /\ (status[a].exists /\ status[a].processed = 1) => a \in s3
               /\ a \in datasets => a \in s3

\* C8: when driver.insert or the S3 upload of an acquisition failed, the cycle
\* does not set processed for it.
C8_FailedIngestStaysPending ==
    (lastOp.op \in {"setStatus", "skipStatus"} /\ lastOp.stage = "processed"
        /\ (lastOp.acq \notin datasets \/ lastOp.acq \notin s3))
        => ~(status[lastOp.acq].exists /\ status[lastOp.acq].processed = 1)

\* C9: when a raster error (a missing crop mask or admin zone raster) occurred
\* while uploadStats computed the statistics of an acquisition, statGen is not
\* true for the acquisition when uploadStats returns.
C9_StatsErrorLeavesStatGenUnset ==
    (lastOp.op = "uploadStats" /\ lastOp.skipped)
        => ~(status[lastOp.acq].exists /\ status[lastOp.acq].statGen = 1)

\* C10: uploadStats is re-entered at most 3 times for one acquisition when the
\* connection is lost again and again.
C10_AtMostThreeRetries == us.depth <= 3

\* the runs of r and q have ended
Ended(r, q) ==
    /\ r # q
    /\ run[r].pc \in {"done", "failed"}
    /\ run[q].pc \in {"done", "failed"}

\* C11: when two uploadStats runs both observed exists = false for the same
\* key, both complete without error and the table exists afterwards.
C11_CreateIsIdempotent ==
    \A r, q \in Runners :
        (Ended(r, q) /\ ~run[r].seen /\ ~run[q].seen)
            => /\ run[r].pc = "done" /\ run[q].pc = "done"
               /\ tbl[TblKey].exists

\* C12: when two callers both issued ALTER TABLE .. ADD for the same column of
\* one stats table, both complete (the loser takes "already exists" as
\* success) and the column holds the values of every row.
C12_SchemaRaceIsSuccess ==
    \A r, q \in Runners :
        (Ended(r, q) /\ run[r].alt /\ run[q].alt /\ run[r].acq = run[q].acq)
            => /\ run[r].pc = "done" /\ run[q].pc = "done"
               /\ \A g \in tbl[TblKey].rows : <<g, run[r].acq>> \in tbl[TblKey].vals

(***************************************************************************)
(* Properties of the planner of expected dates.                            *)
(***************************************************************************)
\* date d is on the cadence of the product (the 5-day product has no anchor
\* in the calendar, its dates are counted from the start date l)
Legal(product, l, d) ==
    CASE product \in {"merra-2", "MOD13Q4N"} -> TRUE
      [] product = "swi" -> (d - l) % 5 = 0
      [] product \in {"chirps", "chirps-prelim"} -> DayOfMonth(d) \in {1, 11, 21}
      [] product \in {"MOD09Q1", "MYD09Q1"} -> (DayOfYear(d) - 1) % 8 = 0
      [] product = "MOD13Q1" -> (DayOfYear(d) - 1) % 16 = 0
      [] product = "MYD13Q1" -> (DayOfYear(d) - 9) % 16 = 0

\* the list of expected dates grew in order and holds dates of the cadence only
PlanInOrder ==
    /\ plan.out # {} => plan.prev < plan.latest
    /\ \A d \in plan.out : Legal(plan.product, plan.start, d)

\* C13 as stated: for every product and every starting date the expected
\* dates are strictly increasing and cadence-legal.
C13_AnyStartIncreasingLegal == plan.pc # "idle" => PlanInOrder

\* C13, amended: when the starting date is itself a date of the product's
\* cadence, every expected date is later than the one before it and is a
\* date of the cadence.
C13_LegalStartIncreasingLegal ==
    (plan.pc # "idle" /\ Legal(plan.product, plan.start, plan.start)) => PlanInOrder

\* a dekad list that began on day 21 has passed the end of the month
C13_Witness ==
    /\ plan.product = "chirps"
    /\ DayOfMonth(plan.start) = 21
    /\ Cardinality(plan.out) >= 2

\* C14: every expected date generated from the catalog's latest date L at
\* clock date T lies in (L, T], so no date later than T is emitted or inserted
\* as pending; from L = 2019-11-21 at T = 2019-12-05 the dekad planner yields
\* exactly {2019-12-01}.
C14_DatesWithinInterval ==
    plan.pc # "idle" =>
        /\ \A d \in plan.out : plan.start < d /\ d <= plan.today
        /\ (/\ plan.pc = "done"
            /\ plan.product = "chirps"
            /\ plan.start = MonthStart(1) + 20
            /\ plan.today = MonthStart(2) + 4) => plan.out = {MonthStart(2)}

\* the number of days between two dates of an 8-day or 16-day product
Cadence(product) == IF product \in {"MOD09Q1", "MYD09Q1"} THEN 8 ELSE 16

\* C16: the cadence step rolls over at period boundaries: a dekad date on day
\* 21 advances to day 01 of the next month (December to January included), and
\* an 8-day or 16-day NDVI date that steps past the end of the year resets to
\* day of year 001, or to 009 for the offset 16-day product.
C16_StepRollsOver ==
    plan.out # {} =>
        /\ (plan.product \in {"chirps", "chirps-prelim"} /\ DayOfMonth(plan.prev) = 21)
              => plan.latest = MonthStart(MonthOf(plan.prev) + 1)
        /\ (/\ plan.product \in {"MOD09Q1", "MYD09Q1", "MOD13Q1", "MYD13Q1"}
            /\ YearOf(plan.prev + Cadence(plan.product)) # YearOf(plan.prev))
              => /\ YearOf(plan.latest) = YearOf(plan.prev) + 1
                 /\ DayOfYear(plan.latest) = (IF plan.product = "MYD13Q1" THEN 9 ELSE 1)

\* the offset 16-day product stepped from the last date of 2019 into 2020
C16_Witness ==
    /\ plan.product = "MYD13Q1"
    /\ YearOf(plan.prev) = 2019
    /\ DayOfYear(plan.prev) = 361
    /\ YearOf(plan.latest) = 2020
    /\ plan.latest \in plan.out

C17_PurgeAfterDefinitive == \A d \in PDates : pg.inv[d] # "early"

\* C18: after purge of a preliminary acquisition of date D its object is
\* deleted, its product_status row is removed and its val/pct columns are
\* dropped from every stats table it had written, while the definitive
\* product's columns, row and object are unchanged.
C18_PurgeRemovesPreliminaryOnly ==
    (pg.last # 0 /\ pg.key = "right" /\ pg.before.pre[pg.last].obj) =>
        /\ pg.after.pre[pg.last] = NoItem
        /\ pg.after.fin = pg.before.fin
        /\ \A d \in PDates \ {pg.last} : pg.after.pre[d] = pg.before.pre[d]

(***************************************************************************)
(* Properties of the filtered update cycle.                                *)
(***************************************************************************)
\* the cycle has ended, by the end of its loop or by an exception
CycleOver == fl.pc \in {"done", "raised"}

\* candidate j was probed and the source answered that the file is not there
AnsweredNo(j) == j <= Len(fl.probes) /\ fl.probes[j] \in {"no", "absent"}

\* candidate j is the one whose probe raised
Raising(j) == fl.pc = "raised" /\ j = Len(fl.probes)

\* C19: a failure while probing, fetching, ingesting or aggregating one
\* acquisition is logged and does not prevent the remaining acquisitions of
\* the same update cycle from being attempted.
C19_FailureIsIsolated ==
    CycleOver =>
        \A j \in 1..Len(fl.cands) :
            (~AnsweredNo(j) /\ ~Raising(j) /\ (j <= Len(fl.probes) => j \in fl.kept))
                => j \in fl.tried

\* C20: filterUnavailable discards only candidates whose probe answers
\* definitive-no; a candidate whose probe fails transiently (timeout, 5xx,
\* connection error) is kept in the to-do list.
C20_TransientIsKept ==
    fl.pc \in {"loop", "done"} =>
        \A j \in 1..Len(fl.cands) :
            /\ j \notin fl.kept => AnsweredNo(j)
            /\ fl.probes[j] \in {"http5xx", "conn"} => j \in fl.kept

(***************************************************************************)
(* Properties of the temperature product.                                  *)
(***************************************************************************)
\* C21: if the upstream listing lacks the file of any one of the five days
\* D-4..D, the acquisition of D is treated as unavailable: the probe answers
\* unavailable and the fetch returns no output rasters.
C21_MissingDayIsUnavailable ==
    (\E i \in 1..MerraDays : mr.listing[i] # "listed") =>
        /\ mr.by = "probe" => mr.ret = "False"
        /\ mr.by = "fetch" => mr.ret = "()"

(***************************************************************************)
(* Properties of the rectifier.                                            *)
(***************************************************************************)
\* C22: after rectify() completes for an acquisition whose stats tables were
\* missing, or lacked the doy columns, for some permitted pairs, a subsequent
\* scan reports no missing pair for it and its processed and statGen flags
\* are true.
C22_RectifyClosesGaps ==
    (rc.pc = "rescanned" /\ rc.ret = "True" /\ rc.data # <<>>) =>
        /\ rc.again = <<>>
        /\ status[rc.acq].processed = 1
        /\ status[rc.acq].statGen = 1

(***************************************************************************)
(* Properties of the pair policy.                                          *)
(***************************************************************************)
\* C23: uploadStats never runs zonal statistics for, creates a stats table
\* for, or writes columns into the table of a (mask, region) pair that the
\* matchup policy disallows.
C23_NoStatsForDisallowedPair ==
    \A k \in up.ran \cup up.created \cup up.wrote : k[1] \in matchup[k[2]]

(***************************************************************************)
(* Properties of the zonal statistics.                                     *)
(***************************************************************************)
\* C24: for any split of the window set into two disjoint parts, combining
\* the two partial aggregates gives, for every region, the same arable pixel
\* count, observed pixel count and mean value as aggregating all windows
\* together with zonalStats.
C24_ReductionOfPartsIsWhole ==
    (zs.ret.is # "none" /\ Len(zs.outs) = Len(getWindows(0, Len(zs.raster), zs.blocksize))) =>
        \A cut \in 0..Len(zs.outs) :
            /\ zs.ret.is = "dict"
            /\ zs.ret.dict = update_ZS(foldZS(zs.outs, 1, cut),
                                       foldZS(SubSeq(zs.outs, cut + 1, Len(zs.outs)), 1, Len(zs.outs) - cut))

\* C25: zonal statistics computed with mask = nomask equal those computed
\* with a mask raster that is 1 on every pixel, for every region, in the
\* window worker of stats.py and in zonal_stats of legacy.py.
C25_NomaskIsAllOnes ==
    zs.mask = "nomask" =>
        /\ \A i \in 1..Len(zs.outs) :
             zs.outs[i] = mp_worker_ZS(ReadWindow(zs.raster, getWindows(0, Len(zs.raster), zs.blocksize)[i]), "ones")
        /\ zs.frame.is # "none" =>
             zs.frame = zonal_stats(kind, zs.admin_path, zs.raster, "ones", zs.blocksize)

\* a window with an arable pixel and a frame of rows were computed without a mask
C25_Witness ==
    /\ zs.mask = "nomask"
    /\ \E i \in 1..Len(zs.outs) : DOMAIN zs.outs[i] # {}
    /\ zs.frame.is = "DataFrame"

(***************************************************************************)
(* Properties of the downloads.                                            *)
(***************************************************************************)
\* C26: when the size of a downloaded file differs from the Content-Length
\* announced by the server, the download fails and the partially downloaded
\* file is deleted, so no partial artifact remains in the destination
\* directory.
C26_MismatchLeavesNoPartial ==
    (dl.pc = "returned" /\ dl.observed # dl.expected) =>
        /\ dl.ret = "()"
        /\ dl.files = {}

C28_RowWaitsForThreeCollections ==
    /\ (mc.pc # "idle" /\ status[1].processed = 1 /\ status[1].completed = 1) =>
           (mc.published = merraFiles /\ mc.stats = merraFiles)
    /\ (mc.pc = "refreshed" /\ mc.failed # "none") => 1 \in mc.planned

(***************************************************************************)
(* Properties of the discovery.                                            *)
(***************************************************************************)
\* C29: when two refresh() runs overlap, or a refresh is re-run after a crash
\* part-way through inserting pending rows, each run completes and
\* product_status holds exactly one row per (product, date).
C29_DiscoveryIsIdempotent ==
    /\ \A r \in DOMAIN dc.runs : dc.runs[r].pc # "IntegrityError"
    /\ \A d \in DOMAIN dc.rows : dc.rows[d] <= 1
    /\ (dc.today > 0 /\ \A r \in DOMAIN dc.runs : dc.runs[r].pc = "done") =>
           \A d \in DOMAIN dc.rows : dc.rows[d] = 1

(***************************************************************************)
(* Properties of the resolution of a stats table id.                       *)
(***************************************************************************)
\* C30: resolving a stats table id always terminates: after inserting a
\* missing stats look-up row, the retry finds that row and returns, so
\* getStatID recurses at most once per call.
C30_RetryFindsInsertedRow ==
    \A c \in Callers :
        /\ gs[c].depth <= 1
        /\ (gs[c].depth = 1 /\ gs[c].pc # "select") => gs[c].pc = "done"
====
